---- MODULE Spec2Model ----
(***************************************************************************)
(* Course claim / reservation / payment-finalization state machine of      *)
(* backend/subcontracting.py.  One course, its claim tokens, the drivers,  *)
(* the commission payments and the payment gateway's sessions are the      *)
(* store; every request handler is a process whose steps are its store     *)
(* operations (each `await db...` is one atomic step).                     *)
(***************************************************************************)
EXTENDS Integers, Sequences, FiniteSets, TLC

\* ---------------------------------------------------------------- bounds
NumDrivers == 2
NumSlots == 2
MaxTime == 5
MaxPayments == 2
NumRacers == 3
NumCourseInputs == 2
MaxTokens == 4
MaxHookTime == 9
MaxLateCount == 4
PriorLate == 2
NumEmails == 2
NumPasswords == 2
MaxDrivers == 3
BasePriceCents == 6900
MaxPriceCents == 7000

\* ------------------------------------------------------ program constants
RESERVATION_DURATION_MINUTES == 3
CLAIM_TOKEN_EXPIRY_MINUTES == 30
\* Python's None for a driver id, a timestamp, a token or a session id
NULL == 0
\* is_late_cancellation: 3600 seconds
LATE_CANCELLATION_MINUTES == 60
\* the course's pickup date and time, in minutes on the clock
PickupAt == 64

\* ----------------------------------------------------- binary64 arithmetic
\* The amounts are Python floats (IEEE 754 binary64).  A float is kept
\* exactly: mant / 2^scale with 2^52 <= mant < 2^53, the mantissa written as
\* a natural number in digits of base 2^15, least significant first.  The
\* operations are functions, so that an operand is a value when it is used.
Base == 2^15

\* the natural numbers in digits, and the floats
Number == Seq(Nat)

Floats == [mant : Number, scale : Int]

\* the natural number n in digits
Digits[n \in Nat] == IF n = 0 THEN <<>> ELSE <<n % Base>> \o Digits[n \div Base]

\* the value of a natural number small enough to be an integer of the model
Value[a \in Number] == IF a = <<>> THEN 0 ELSE a[1] + Base * Value[Tail(a)]

\* without leading zero digits
Trim[a \in Number] ==
    IF a = <<>> THEN <<>>
    ELSE IF a[Len(a)] = 0 THEN Trim[SubSeq(a, 1, Len(a) - 1)]
    ELSE a

Rest[a \in Number] == IF a = <<>> THEN <<>> ELSE Tail(a)

\* a + b + c
Add[a \in Number, b \in Number, c \in Nat] ==
    IF a = <<>> /\ b = <<>> THEN Digits[c]
    ELSE LET x == (IF a = <<>> THEN 0 ELSE a[1]) + (IF b = <<>> THEN 0 ELSE b[1]) + c
         IN <<x % Base>> \o Add[Rest[a], Rest[b], x \div Base]

\* a * m + c for a digit-sized m
MulSmall[a \in Number, m \in Nat, c \in Nat] ==
    IF a = <<>> THEN Digits[c]
    ELSE LET x == a[1] * m + c
         IN <<x % Base>> \o MulSmall[Tail(a), m, x \div Base]

\* a * b
Mul[a \in Number, b \in Number] ==
    IF a = <<>> THEN <<>>
    ELSE Trim[Add[MulSmall[b, a[1], 0], <<0>> \o Mul[Tail(a), b], 0]]

\* a quotient with its remainder
QuotRem == [q : Number, r : Nat]

\* one step of the long division by d: the quotient and remainder hi of the
\* higher digits, extended by the next digit
DivStep[hi \in QuotRem, digit \in Nat, d \in Nat] ==
    LET x == hi.r * Base + digit
    IN [q |-> <<x \div d>> \o hi.q, r |-> x % d]

\* a divided by a digit-sized d: quotient and remainder
DivSmall[a \in Number, d \in Nat] ==
    IF a = <<>> THEN [q |-> <<>>, r |-> 0]
    ELSE DivStep[DivSmall[Tail(a), d], a[1], d]

\* a * 2^j
Shl[a \in Number, j \in Nat] ==
    IF a = <<>> THEN <<>>
    ELSE IF j >= 15 THEN <<0>> \o Shl[a, j - 15]
    ELSE Trim[MulSmall[a, 2^j, 0]]

\* floor(a / 2^j)
Shr[a \in Number, j \in Nat] ==
    IF a = <<>> THEN <<>>
    ELSE IF j >= 15 THEN Shr[Tail(a), j - 15]
    ELSE Trim[DivSmall[a, 2^j].q]

BitsOf[n \in Nat] == IF n = 0 THEN 0 ELSE 1 + BitsOf[n \div 2]

\* the number of binary digits of a
BitLen[a \in Number] == IF a = <<>> THEN 0 ELSE 15 * (Len(a) - 1) + BitsOf[a[Len(a)]]

Odd[a \in Number] == a # <<>> /\ a[1] % 2 = 1

\* whether a / 2^j rounds up from its floor q, whose last bit before the
\* cut is in q2 = floor(a / 2^(j-1)): more than a half, or a half and q odd
RoundsUp[a \in Number, j \in Nat, q \in Number, q2 \in Number] ==
    Odd[q2] /\ (Shl[q2, j - 1] # a \/ Odd[q])

\* q, or q + 1 when up
Rounded[q \in Number, up \in BOOLEAN] == IF up THEN Trim[Add[q, <<1>>, 0]] ELSE q

\* a / 2^j rounded to the nearest integer, a tie to the even one
RoundShr[a \in Number, j \in Nat] ==
    IF j = 0 THEN a
    ELSE Rounded[Shr[a, j], RoundsUp[a, j, Shr[a, j], Shr[a, j - 1]]]

Zero == [mant |-> <<>>, scale |-> 0]

\* m / 2^scale for a rounded mantissa m of 53 bits, or of 54 after a carry
Normal[m \in Number, scale \in Int] ==
    IF BitLen[m] = 54 THEN [mant |-> Shr[m, 1], scale |-> scale - 1]
    ELSE [mant |-> m, scale |-> scale]

\* the float nearest to n / 2^scale (round to nearest, ties to even) for n
\* of len binary digits
Nearest[n \in Number, scale \in Int, len \in Nat] ==
    IF len <= 53 THEN [mant |-> Shl[n, 53 - len], scale |-> scale + 53 - len]
    ELSE Normal[RoundShr[n, len - 53], scale - (len - 53)]

Float[n \in Number, scale \in Int] ==
    IF n = <<>> THEN Zero ELSE Nearest[n, scale, BitLen[n]]

\* the quotient dv.q with one more bit that tells whether the division
\* left a remainder
Sticky[dv \in QuotRem] ==
    Trim[Add[Shl[Trim[dv.q], 1], Digits[IF dv.r = 0 THEN 0 ELSE 1], 0]]

\* the float nearest to n / d, as the parser of a decimal literal or of a
\* JSON number gives it: the quotient to 80 binary places and the sticky bit
FromRatio[n \in Nat, d \in Nat] ==
    Float[Sticky[DivSmall[Shl[Digits[n], 80], d]], 81]

\* x * y on floats: the exact product, rounded
fmul[x \in Floats, y \in Floats] == Float[Mul[x.mant, y.mant], x.scale + y.scale]

\* the number of hundredths nearest to the exact value of x
hundredths[x \in Floats] == Value[RoundShr[MulSmall[x.mant, 100, 0], x.scale]]

\* round(x, 2): the float nearest to the decimal that is nearest to x
round_2[x \in Floats] == FromRatio[hundredths[x], 100]

\* int(x): truncation
int[x \in Floats] == Value[Shr[x.mant, x.scale]]

\* COMMISSION_RATE = 0.10, and the 100 of `commission_amount * 100`
COMMISSION_RATE == FromRatio[10, 100]

Hundred == FromRatio[100, 1]

VARIABLES
    now,        \* the clock, in minutes (datetime.now(timezone.utc))
    course,     \* the Course document
    drivers,    \* db.drivers: driver id -> Driver document
    tokens,     \* db.claim_tokens: token -> ClaimToken document
    payments,   \* db.commission_payments: session id -> CommissionPayment
    gateway,    \* the gateway's checkout sessions: session id -> payment_status
    h,          \* the request handlers in flight: slot -> position and locals
    notified    \* session id -> number of course-assigned notifications sent

vars == <<now, course, drivers, tokens, payments, gateway, h, notified>>

CourseStatusEnum ==
    {"OPEN", "RESERVED", "ASSIGNED", "DONE", "CANCELLED",
     "CANCELLED_LATE_DRIVER", "CANCELLED_LATE_CLIENT"}

\* Course(...) with the defaults of the model class; the client's details
\* are filled in by admin_create_course
Course ==
    [pickup_address |-> NULL,
     dropoff_address |-> NULL,
     client_phone |-> NULL,
     client_email |-> NULL,
     notes |-> NULL,
     price_total |-> Zero,
     commission_amount |-> Zero,
     status |-> "OPEN",
     reserved_by_driver_id |-> NULL,
     reserved_until |-> NULL,
     assigned_driver_id |-> NULL,
     assigned_at |-> NULL,
     commission_paid |-> FALSE,
     commission_paid_at |-> NULL]

\* the course data an admin may post.  An address is a number whose tens
\* are its city and department and whose units are the street; price_total
\* is the float that the JSON number of cents/100 euros parses to.
CourseData(i, cents) ==
    [pickup_address |-> 70 + i,
     dropoff_address |-> 80 + i,
     client_phone |-> 30 + i,
     client_email |-> 40 + i,
     notes |-> 50 + i,
     price_total |-> FromRatio[cents, 100]]

CourseCreate == {CourseData(i, BasePriceCents) : i \in 1..NumCourseInputs}

\* the same course at every price from one cent to MaxPriceCents
CoursePrices == {CourseData(1, cents) : cents \in 1..MaxPriceCents}

\* round(price_total * COMMISSION_RATE, 2)
commission_of(price_total) == round_2[fmul[price_total, COMMISSION_RATE]]

\* admin_create_course(data): the Course built from the posted data
admin_create_course(data) ==
    [Course EXCEPT !.pickup_address = data.pickup_address,
                   !.dropoff_address = data.dropoff_address,
                   !.client_phone = data.client_phone,
                   !.client_email = data.client_email,
                   !.notes = data.notes,
                   !.price_total = data.price_total,
                   !.commission_amount = commission_of(data.price_total)]

\* simple_hash(password): the SHA-256 digest, a value that is not the
\* password and differs for different passwords
simple_hash(password) == 100 + 7 * password

\* Driver(...) as register_driver builds it from the posted DriverCreate:
\* is_active is False until an admin validates the account
Driver(data) ==
    [email |-> data.email,
     password_hash |-> simple_hash(data.password),
     is_active |-> FALSE,
     late_cancellation_count |-> 0]

\* the account of driver d after its registration (e-mail d, password d)
Registered(d) == Driver([email |-> d, password |-> d])

\* the same account after admin validation
Validated(d) == [Registered(d) EXCEPT !.is_active = TRUE]

\* the id of the course of this model, and the id of some other course
CourseId == 1
OtherCourseId == 2

\* ClaimToken(course_id=c, expires_at=t + CLAIM_TOKEN_EXPIRY_MINUTES)
ClaimToken(c, t) == [course_id |-> c, expires_at |-> t + CLAIM_TOKEN_EXPIRY_MINUTES]

CommissionPayment(d, amount) ==
    [driver_id |-> d, amount |-> amount, status |-> "pending", paid_at |-> NULL]

\* the checkout session the gateway creates for unit_amount cents
CheckoutSession(unit_amount) ==
    [payment_status |-> "unpaid", unit_amount |-> unit_amount]

\* ---------------------------------------------------------------- handlers
NoSnap == [Course EXCEPT !.status = "none"]

\* the fields of a response body that the model keeps
NoBody ==
    [status |-> "none",
     pickup_location |-> NULL, dropoff_location |-> NULL,
     pickup_address |-> NULL, dropoff_address |-> NULL,
     client_phone |-> NULL, client_email |-> NULL, notes |-> NULL,
     reserved_until |-> NULL]

\* no posted account data
NoData == [email |-> NULL, password |-> NULL]

Idle ==
    [op |-> "idle", pc |-> "idle", driver |-> NULL, token |-> NULL,
     session |-> NULL, snap |-> NoSnap, fin |-> "none", res |-> "none",
     body |-> NoBody, data |-> NoData]

Free(s) == h[s].pc \in {"idle", "done"}

\* the handler has returned `res` to its caller
Return(s, res) == [Idle EXCEPT !.op = h[s].op, !.pc = "done", !.res = res]

\* a request answered by its first step
Answer(op, res) == [Idle EXCEPT !.op = op, !.pc = "done", !.res = res]

Store == <<course, drivers, tokens, payments, gateway, notified>>

\* ------------------------------------------------------------------ helpers
\* get_driver_from_token: 401 for an unknown id, 403 for an inactive driver
get_driver_from_token(d) ==
    IF d \notin DOMAIN drivers THEN "401"
    ELSE IF ~drivers[d].is_active THEN "403"
    ELSE "ok"

\* a lookup that accepts a stored token whatever its expires_at
find_claim_no_expiry(t) == IF t \notin DOMAIN tokens THEN "404" ELSE "ok"

\* the claim-token lookup and expiry check shared by the claim routes
find_claim(t) ==
    IF t \notin DOMAIN tokens THEN "404"
    ELSE IF now > tokens[t].expires_at THEN "410"
    ELSE "ok"

\* check_and_expire_reservation: the condition under which it resets
reservation_expired(c) ==
    /\ c.status = "RESERVED"
    /\ c.reserved_until # NULL
    /\ now > c.reserved_until

\* a reset that changes the status and keeps the reservation fields
expire_set_status_only(c) == [c EXCEPT !.status = "OPEN"]

\* check_and_expire_reservation: the $set it writes, applied to document c
expire_set(c) ==
    [c EXCEPT !.status = "OPEN",
              !.reserved_by_driver_id = NULL,
              !.reserved_until = NULL]

\* an expiry that changes the handler's copy and writes nothing
check_and_expire_copy_only(s) == UNCHANGED course

\* check_and_expire_reservation(course): an unconditional update_one by id
\* of the stored document, and the same change to the handler's copy
check_and_expire_reservation(s) ==
    IF reservation_expired(h[s].snap)
    THEN course' = expire_set(course)
    ELSE UNCHANGED course

swept(c) == IF reservation_expired(c) THEN expire_set(c) ELSE c

\* ------------------------------------------------------------ reserve_course
\* POST /claim/{token}/reserve: get_driver_from_token, then the claim-token
\* lookup and its expiry check.  Both only read, and a token never becomes
\* valid again, so the two reads are one step.
reserve_course(s, d, t) ==
    /\ Free(s)
    /\ LET a == get_driver_from_token(d)
           r == IF a = "ok" THEN find_claim(t) ELSE a
           me == [Idle EXCEPT !.op = "reserve", !.driver = d, !.token = t]
       IN h' = [h EXCEPT ![s] =
                  IF r = "ok" THEN [me EXCEPT !.pc = "find_course"]
                  ELSE Answer("reserve", r)]
    /\ UNCHANGED <<now, Store>>

\* courses.find_one
reserve_find_course(s) ==
    /\ h[s].op = "reserve" /\ h[s].pc = "find_course"
    /\ h' = [h EXCEPT ![s] = [@ EXCEPT !.pc = "expire", !.snap = course]]
    /\ UNCHANGED <<now, Store>>

\* the body of a successful reserve response
reserve_body(until) ==
    [NoBody EXCEPT !.status = "RESERVED", !.reserved_until = until]

\* a reserve that restarts the timer of the caller's own reservation
reserve_expire_renew(s) ==
    /\ h[s].op = "reserve" /\ h[s].pc = "expire"
    /\ LET c == swept(h[s].snap)
       IN IF c.status = "RESERVED" /\ c.reserved_by_driver_id = h[s].driver
          THEN /\ course' = [course EXCEPT
                               !.reserved_until = now + RESERVATION_DURATION_MINUTES]
               /\ h' = [h EXCEPT ![s] =
                          [Return(s, "already") EXCEPT
                             !.body = reserve_body(now + RESERVATION_DURATION_MINUTES)]]
          ELSE /\ check_and_expire_reservation(s)
               /\ h' = [h EXCEPT ![s] =
                          IF c.status = "OPEN"
                          THEN [@ EXCEPT !.pc = "update",
                                         !.snap = IF reservation_expired(h[s].snap)
                                                  THEN h[s].snap ELSE NoSnap]
                          ELSE Return(s, "409")]
    /\ UNCHANGED <<now, drivers, tokens, payments, gateway, notified>>

\* a reserve that leaves every conflict to its conditional update
reserve_expire_no_conflict(s) ==
    /\ h[s].op = "reserve" /\ h[s].pc = "expire"
    /\ check_and_expire_reservation(s)
    /\ LET c == swept(h[s].snap)
       IN h' = [h EXCEPT ![s] =
                  IF c.status = "RESERVED" /\ c.reserved_by_driver_id = h[s].driver
                  THEN [Return(s, "already") EXCEPT
                          !.body = reserve_body(c.reserved_until)]
                  ELSE [@ EXCEPT !.pc = "update",
                                 !.snap = IF reservation_expired(h[s].snap)
                                          THEN h[s].snap ELSE NoSnap]]
    /\ UNCHANGED <<now, drivers, tokens, payments, gateway, notified>>

\* check_and_expire_reservation, then the status checks on the local copy.
\* A handler that has expired a reservation keeps the document it had loaded.
reserve_expire(s) ==
    /\ h[s].op = "reserve" /\ h[s].pc = "expire"
    /\ check_and_expire_reservation(s)
    /\ LET c == swept(h[s].snap)
       IN h' = [h EXCEPT ![s] =
                  IF c.status = "ASSIGNED" THEN Return(s, "409")
                  ELSE IF c.status = "RESERVED"
                       THEN IF c.reserved_by_driver_id = h[s].driver
                            THEN [Return(s, "already") EXCEPT
                                    !.body = reserve_body(c.reserved_until)]
                            ELSE Return(s, "409")
                  ELSE IF c.status # "OPEN" THEN Return(s, "409")
                  ELSE [@ EXCEPT !.pc = "update",
                                 !.snap = IF reservation_expired(h[s].snap)
                                          THEN h[s].snap ELSE NoSnap]]
    /\ UNCHANGED <<now, drivers, tokens, payments, gateway, notified>>

\* the reservation written by update_one({id}) without the status filter
reserve_update_one_unfiltered(s) ==
    /\ h[s].op = "reserve" /\ h[s].pc = "update"
    /\ course' = [course EXCEPT
                    !.status = "RESERVED",
                    !.reserved_by_driver_id = h[s].driver,
                    !.reserved_until = now + RESERVATION_DURATION_MINUTES]
    /\ h' = [h EXCEPT ![s] = [Return(s, "reserved") EXCEPT !.snap = h[s].snap]]
    /\ UNCHANGED <<now, drivers, tokens, payments, gateway, notified>>

\* courses.find_one_and_update({id, status: OPEN}, $set RESERVED ...)
reserve_find_one_and_update(s) ==
    /\ h[s].op = "reserve" /\ h[s].pc = "update"
    /\ IF course.status = "OPEN"
       THEN /\ course' = [course EXCEPT
                            !.status = "RESERVED",
                            !.reserved_by_driver_id = h[s].driver,
                            !.reserved_until = now + RESERVATION_DURATION_MINUTES]
            /\ h' = [h EXCEPT ![s] =
                       [Return(s, "reserved") EXCEPT
                          !.snap = h[s].snap,
                          !.body = reserve_body(now + RESERVATION_DURATION_MINUTES)]]
       ELSE /\ h' = [h EXCEPT ![s] = Return(s, "409")]
            /\ UNCHANGED course
    /\ UNCHANGED <<now, drivers, tokens, payments, gateway, notified>>

\* ------------------------------------------------------------ get_claim_info
\* GET /claim/{token}: claim_tokens.find_one and the expiry check
get_claim_info(s, t) ==
    /\ Free(s)
    /\ LET r == find_claim(t)
           me == [Idle EXCEPT !.op = "claim_info", !.token = t]
       IN h' = [h EXCEPT ![s] =
                  IF r = "ok" THEN [me EXCEPT !.pc = "find_course"]
                  ELSE Answer("claim_info", r)]
    /\ UNCHANGED <<now, Store>>

\* courses.find_one
claim_info_find_course(s) ==
    /\ h[s].op = "claim_info" /\ h[s].pc = "find_course"
    /\ h' = [h EXCEPT ![s] = [@ EXCEPT !.pc = "expire", !.snap = course]]
    /\ UNCHANGED <<now, Store>>

\* extract_city_department(address): the city and department of the address
extract_city_department(a) == a \div 10

\* a view that gives the client's details whatever the status
claim_view_unmasked(c) ==
    [NoBody EXCEPT !.status = c.status,
                   !.pickup_location = extract_city_department(c.pickup_address),
                   !.dropoff_location = extract_city_department(c.dropoff_address),
                   !.pickup_address = c.pickup_address,
                   !.dropoff_address = c.dropoff_address,
                   !.client_phone = c.client_phone,
                   !.client_email = c.client_email,
                   !.notes = c.notes]

\* the "course" object of get_claim_info's response, built from document c
claim_view(c) ==
    LET is_assigned == c.status = "ASSIGNED"
    IN [NoBody EXCEPT
          !.status = c.status,
          !.pickup_location = extract_city_department(c.pickup_address),
          !.dropoff_location = extract_city_department(c.dropoff_address),
          !.pickup_address = IF is_assigned THEN c.pickup_address ELSE NULL,
          !.dropoff_address = IF is_assigned THEN c.dropoff_address ELSE NULL,
          !.client_phone = IF is_assigned THEN c.client_phone ELSE NULL,
          !.client_email = IF is_assigned THEN c.client_email ELSE NULL,
          !.notes = IF is_assigned THEN c.notes ELSE NULL]

\* check_and_expire_reservation, then the view built from the local copy:
\* the response's course.status is the (swept) copy's status
claim_info_expire(s) ==
    /\ h[s].op = "claim_info" /\ h[s].pc = "expire"
    /\ check_and_expire_reservation(s)
    /\ h' = [h EXCEPT ![s] =
               [Return(s, swept(h[s].snap).status)
                  EXCEPT !.body = claim_view(swept(h[s].snap))]]
    /\ UNCHANGED <<now, drivers, tokens, payments, gateway, notified>>

\* ---------------------------------------------------------- initiate_payment
\* POST /claim/{token}/pay: get_driver_from_token and the claim-token lookup
\* (this route does not check the token's expiry)
initiate_payment(s, d, t) ==
    /\ Free(s)
    /\ Len(payments) + Cardinality({x \in DOMAIN h : h[x].op = "pay" /\ h[x].pc # "done"})
          < MaxPayments
    /\ LET a == get_driver_from_token(d)
           r == IF a # "ok" THEN a ELSE IF t \notin DOMAIN tokens THEN "404" ELSE "ok"
           me == [Idle EXCEPT !.op = "pay", !.driver = d, !.token = t]
       IN h' = [h EXCEPT ![s] =
                  IF r = "ok" THEN [me EXCEPT !.pc = "find_course"]
                  ELSE Answer("pay", r)]
    /\ UNCHANGED <<now, Store>>

\* a payment route that does not look at the reservation's timer
pay_find_course_no_timer(s) ==
    /\ h[s].op = "pay" /\ h[s].pc = "find_course"
    /\ h' = [h EXCEPT ![s] =
               IF course.status # "RESERVED" THEN Return(s, "409")
               ELSE IF course.reserved_by_driver_id # h[s].driver THEN Return(s, "403")
               ELSE [@ EXCEPT !.pc = "create"]]
    /\ UNCHANGED <<now, Store>>

\* courses.find_one, then the checks on the copy: RESERVED, by the caller,
\* reserved_until not passed
pay_find_course(s) ==
    /\ h[s].op = "pay" /\ h[s].pc = "find_course"
    /\ h' = [h EXCEPT ![s] =
               IF course.status # "RESERVED" THEN Return(s, "409")
               ELSE IF course.reserved_by_driver_id # h[s].driver THEN Return(s, "403")
               ELSE IF course.reserved_until # NULL /\ now > course.reserved_until
                    THEN Return(s, "410")
               ELSE [@ EXCEPT !.pc = "create"]]
    /\ UNCHANGED <<now, Store>>

\* commission_cents = int(commission_amount * 100), computed from the
\* course's price_total
commission_cents(c) == int[fmul[commission_of(c.price_total), Hundred]]

\* stripe.checkout.Session.create, then commission_payments.insert_one, and
\* the response with the session's id; a gateway error answers 500 and
\* inserts nothing
pay_create_session(s) ==
    /\ h[s].op = "pay" /\ h[s].pc = "create"
    /\ \/ /\ gateway' = Append(gateway, CheckoutSession(commission_cents(course)))
          /\ payments' =
               Append(payments,
                      CommissionPayment(h[s].driver, commission_of(course.price_total)))
          /\ notified' = Append(notified, 0)
          /\ h' = [h EXCEPT ![s] =
                     [Return(s, "checkout") EXCEPT !.driver = h[s].driver,
                                                   !.session = Len(payments) + 1]]
       \/ /\ h' = [h EXCEPT ![s] = Return(s, "500")]
          /\ UNCHANGED <<gateway, payments, notified>>
    /\ UNCHANGED <<now, course, drivers, tokens>>

\* the driver completes the checkout on the gateway's page
checkout_completed(k) ==
    /\ k \in DOMAIN gateway
    /\ gateway[k].payment_status = "unpaid"
    /\ gateway' = [gateway EXCEPT ![k].payment_status = "paid"]
    /\ UNCHANGED <<now, course, drivers, tokens, payments, h, notified>>

\* ------------------------------------------------------- finalize_attribution
\* a $set that records the payment and leaves the status as it is
finalize_set_keeps_status(c, d) ==
    [c EXCEPT !.assigned_driver_id = d,
              !.assigned_at = now,
              !.commission_amount = commission_of(c.price_total),
              !.commission_paid = TRUE,
              !.commission_paid_at = now,
              !.reserved_by_driver_id = NULL,
              !.reserved_until = NULL]

\* the $set of finalize_attribution's update_one, applied to document c
finalize_set(c, d) ==
    [c EXCEPT !.status = "ASSIGNED",
              !.assigned_driver_id = d,
              !.assigned_at = now,
              !.commission_amount = commission_of(c.price_total),
              !.commission_paid = TRUE,
              !.commission_paid_at = now,
              !.reserved_by_driver_id = NULL,
              !.reserved_until = NULL]

\* a decision that also refuses a payment whose reservation has lapsed
finalize_check_timer(c, d) ==
    IF c.status = "ASSIGNED"
    THEN IF c.assigned_driver_id = d THEN "true" ELSE "false"
    ELSE IF c.status = "RESERVED" /\ c.reserved_by_driver_id = d /\ now <= c.reserved_until
         THEN "update" ELSE "false"

\* a decision that refuses a payment when another driver holds a reservation
finalize_check_own_reservation(c, d) ==
    IF c.status = "ASSIGNED"
    THEN IF c.assigned_driver_id = d THEN "true" ELSE "false"
    ELSE IF c.status = "RESERVED" /\ c.reserved_by_driver_id # d THEN "false"
    ELSE "update"

\* a decision that does not look at who the course is assigned to
finalize_check_any_owner(c, d) ==
    IF c.status = "ASSIGNED" /\ c.assigned_driver_id = d THEN "true" ELSE "update"

\* finalize_attribution's decision on the document it has loaded: "true" and
\* "false" return without writing, "update" goes on to the update_one
finalize_check(c, d) ==
    IF c.status = "ASSIGNED"
    THEN IF c.assigned_driver_id = d THEN "true" ELSE "false"
    ELSE "update"

\* finalize_attribution(course_id, driver_id, session_id): courses.find_one
finalize_attribution_find(s) ==
    /\ h[s].pc = "finalize_find"
    /\ LET r == finalize_check(course, h[s].driver)
       IN h' = [h EXCEPT ![s] =
                  IF r = "update" THEN [@ EXCEPT !.pc = "finalize_update", !.snap = course]
                  ELSE [@ EXCEPT !.pc = "payment_update", !.fin = r]]
    /\ UNCHANGED <<now, Store>>

\* courses.update_one({id}, $set ASSIGNED ...) and the notification to the
\* admin, sent when the driver document is found
finalize_attribution_update(s) ==
    /\ h[s].pc = "finalize_update"
    /\ course' = finalize_set(course, h[s].driver)
    /\ notified' = IF h[s].driver \in DOMAIN drivers
                   THEN [notified EXCEPT ![h[s].session] = @ + 1]
                   ELSE notified
    /\ h' = [h EXCEPT ![s] = [@ EXCEPT !.pc = "payment_update", !.fin = "true"]]
    /\ UNCHANGED <<now, drivers, tokens, payments, gateway>>

\* the status the caller writes to the CommissionPayment after finalize
\* returned: the two polling routes ignore the result, the webhook keeps it
payment_status_after(op, fin) ==
    IF op = "webhook" THEN (IF fin = "true" THEN "paid" ELSE "refund_needed")
    ELSE "paid"

\* commission_payments.update_one({session_id}, $set status, paid_at)
payment_update(s) ==
    /\ h[s].pc = "payment_update"
    /\ payments' = [payments EXCEPT ![h[s].session] =
                      [@ EXCEPT !.status = payment_status_after(h[s].op, h[s].fin),
                                !.paid_at = now]]
    /\ h' = [h EXCEPT ![s] =
               Return(s, IF h[s].op = "webhook" THEN "ok" ELSE "paid")]
    /\ UNCHANGED <<now, course, drivers, tokens, gateway, notified>>

\* a test that looks at the gateway's answer only
needs_finalize_gateway_only(k) == gateway[k].payment_status = "paid"

\* a test that leaves alone a session whose course is already assigned
needs_finalize_unassigned_only(k) ==
    gateway[k].payment_status = "paid" /\ payments[k].status # "paid" /\ course.status # "ASSIGNED"

\* the test shared by the three callers: finalize when the gateway says paid
\* and the local record is not yet paid
needs_finalize(k) == gateway[k].payment_status = "paid" /\ payments[k].status # "paid"

\* get_payment_status up to its first await after the reads: 404 when the
\* session has no CommissionPayment (before the gateway is asked), else the
\* finalization or the answer with the record's status
get_payment_status_read(k) ==
    IF k \notin DOMAIN payments THEN [Answer("status", "404") EXCEPT !.session = k]
    ELSE IF needs_finalize(k)
         THEN [Idle EXCEPT !.op = "status", !.pc = "finalize_find",
                           !.driver = payments[k].driver_id, !.session = k]
         ELSE [Answer("status", payments[k].status) EXCEPT !.session = k]

\* GET /payment/status/{session_id}: commission_payments.find_one and
\* stripe.checkout.Session.retrieve
get_payment_status(s, k) ==
    /\ Free(s)
    /\ k \in DOMAIN gateway
    /\ h' = [h EXCEPT ![s] = get_payment_status_read(k)]
    /\ UNCHANGED <<now, Store>>

\* verify_payment up to its first await after the reads: with the gateway's
\* answer paid, the finalization when there is a CommissionPayment not yet
\* paid and else success; with another answer, success False
verify_payment_read(k) ==
    IF k \in DOMAIN payments /\ needs_finalize(k)
    THEN [Idle EXCEPT !.op = "verify", !.pc = "finalize_find",
                      !.driver = payments[k].driver_id, !.session = k]
    ELSE [Answer("verify", IF gateway[k].payment_status = "paid" THEN "paid" ELSE "unpaid")
            EXCEPT !.session = k]

\* GET /verify-payment: stripe.checkout.Session.retrieve and
\* commission_payments.find_one
verify_payment(s, k) ==
    /\ Free(s)
    /\ k \in DOMAIN gateway
    /\ h' = [h EXCEPT ![s] = verify_payment_read(k)]
    /\ UNCHANGED <<now, Store>>

\* the answer of a poll whose stripe.checkout.Session.retrieve raises:
\* get_payment_status has answered 404 before when there is no record and
\* raises HTTP 500, verify_payment returns success False
retrieve_error_answer(op, k) ==
    IF op = "status"
    THEN [Answer("status", IF k \in DOMAIN payments THEN "500" ELSE "404")
            EXCEPT !.session = k]
    ELSE [Answer("verify", "error") EXCEPT !.session = k]

\* a poll during which the gateway cannot be reached
retrieve_error(s, k, op) ==
    /\ Free(s)
    /\ k \in DOMAIN gateway
    /\ h' = [h EXCEPT ![s] = retrieve_error_answer(op, k)]
    /\ UNCHANGED <<now, Store>>

\* an except clause that lets the exception reach the framework (HTTP 500)
webhook_on_exception_raise == "500"

\* handle_stripe_webhook's `except Exception`: it returns the envelope
\* {"status": "error"}, which the framework sends with HTTP 200
webhook_on_exception == "error"

\* POST /api/webhook/stripe with a checkout.session.completed event whose
\* payment_status is paid: commission_payments.find_one, which may raise
handle_stripe_webhook(s, k) ==
    /\ Free(s)
    /\ k \in DOMAIN payments
    /\ gateway[k].payment_status = "paid"
    /\ LET me == [Idle EXCEPT !.op = "webhook", !.driver = payments[k].driver_id,
                              !.session = k]
       IN \/ h' = [h EXCEPT ![s] =
                     IF needs_finalize(k) THEN [me EXCEPT !.pc = "finalize_find"]
                     ELSE Answer("webhook", "ok")]
          \/ h' = [h EXCEPT ![s] = Answer("webhook", webhook_on_exception)]
    /\ UNCHANGED <<now, Store>>

\* the deliveries that end before any store operation
WebhookEvents ==
    {"malformed", "other_type", "no_object", "unpaid", "unknown_session"}

\* POST /api/webhook/stripe with a payload that is not JSON, an event of
\* another type, a completed event without data.object, one whose
\* payment_status is not paid, or one for a session with no payment record
webhook_event(s, e) ==
    /\ Free(s)
    /\ h' = [h EXCEPT ![s] =
               Answer("webhook",
                      IF e \in {"malformed", "no_object"}
                      THEN webhook_on_exception ELSE "ok")]
    /\ UNCHANGED <<now, Store>>

\* a store operation of the webhook's processing raises (in
\* finalize_attribution or at the payment update): the handler's except
\* clause answers, and what was written before stays written
webhook_store_error(s) ==
    /\ h[s].op = "webhook"
    /\ h[s].pc \in {"finalize_find", "finalize_update", "payment_update"}
    /\ h' = [h EXCEPT ![s] = Return(s, webhook_on_exception)]
    /\ UNCHANGED <<now, Store>>

\* ------------------------------------------------------------ cancellations
\* is_late_cancellation(course.date, course.time): less than one hour
\* between now and the pickup
is_late_cancellation == PickupAt - now < LATE_CANCELLATION_MINUTES

\* POST /driver/courses/{id}/cancel: get_driver_from_token
driver_cancel_course(s, d) ==
    /\ Free(s)
    /\ drivers[d].late_cancellation_count < MaxLateCount
    /\ LET a == get_driver_from_token(d)
       IN h' = [h EXCEPT ![s] =
                  IF a = "ok"
                  THEN [Idle EXCEPT !.op = "driver_cancel", !.pc = "find_course", !.driver = d]
                  ELSE Answer("driver_cancel", a)]
    /\ UNCHANGED <<now, Store>>

\* courses.find_one, the two checks on the copy, and the new status
driver_cancel_find_course(s) ==
    /\ h[s].op = "driver_cancel" /\ h[s].pc = "find_course"
    /\ h' = [h EXCEPT ![s] =
               IF course.assigned_driver_id # h[s].driver THEN Return(s, "403")
               ELSE IF course.status # "ASSIGNED" THEN Return(s, "400")
               ELSE [@ EXCEPT !.pc = "update",
                              !.fin = IF is_late_cancellation
                                      THEN "CANCELLED_LATE_DRIVER" ELSE "CANCELLED"]]
    /\ UNCHANGED <<now, Store>>

\* a cancellation that takes the commission back
driver_cancel_update_refund(s) ==
    /\ h[s].op = "driver_cancel" /\ h[s].pc = "update"
    /\ course' = [course EXCEPT !.status = h[s].fin,
                                !.commission_paid = FALSE,
                                !.commission_paid_at = NULL]
    /\ h' = [h EXCEPT ![s] =
               IF h[s].fin = "CANCELLED_LATE_DRIVER" THEN [@ EXCEPT !.pc = "inc"]
               ELSE Return(s, "cancelled")]
    /\ UNCHANGED <<now, drivers, tokens, payments, gateway, notified>>

\* courses.update_one({id}, $set status, cancelled_at, cancelled_by ...);
\* a late cancellation goes on to the driver's counter
driver_cancel_update(s) ==
    /\ h[s].op = "driver_cancel" /\ h[s].pc = "update"
    /\ course' = [course EXCEPT !.status = h[s].fin]
    /\ h' = [h EXCEPT ![s] =
               IF h[s].fin = "CANCELLED_LATE_DRIVER" THEN [@ EXCEPT !.pc = "inc"]
               ELSE Return(s, "cancelled")]
    /\ UNCHANGED <<now, drivers, tokens, payments, gateway, notified>>

\* drivers.update_one({id}, $inc late_cancellation_count 1), then the
\* response; nothing else is written to the driver
driver_cancel_inc(s) ==
    /\ h[s].op = "driver_cancel" /\ h[s].pc = "inc"
    /\ drivers' = [drivers EXCEPT ![h[s].driver].late_cancellation_count = @ + 1]
    /\ h' = [h EXCEPT ![s] = [Return(s, "cancelled_late") EXCEPT !.driver = h[s].driver]]
    /\ UNCHANGED <<now, course, tokens, payments, gateway, notified>>

\* POST /admin/courses/{id}/cancel-client: courses.find_one and the new status
admin_cancel_course_by_client(s) ==
    /\ Free(s)
    /\ h' = [h EXCEPT ![s] =
               [Idle EXCEPT !.op = "client_cancel", !.pc = "update",
                            !.fin = IF is_late_cancellation
                                    THEN "CANCELLED_LATE_CLIENT" ELSE "CANCELLED"]]
    /\ UNCHANGED <<now, Store>>

\* courses.update_one({id}, $set status, cancelled_at, cancelled_by ...)
client_cancel_update(s) ==
    /\ h[s].op = "client_cancel" /\ h[s].pc = "update"
    /\ course' = [course EXCEPT !.status = h[s].fin]
    /\ h' = [h EXCEPT ![s] = Return(s, "cancelled")]
    /\ UNCHANGED <<now, drivers, tokens, payments, gateway, notified>>

\* POST /admin/courses/{id}/cancel: one update_one, no read, no check
admin_cancel_course ==
    /\ course' = [course EXCEPT !.status = "CANCELLED"]
    /\ UNCHANGED <<now, drivers, tokens, payments, gateway, h, notified>>

\* ------------------------------------------------------------- admin, course
\* the $set of admin_reset_course_to_open
reset_set(c) ==
    [c EXCEPT !.status = "OPEN",
              !.reserved_by_driver_id = NULL,
              !.reserved_until = NULL,
              !.assigned_driver_id = NULL,
              !.assigned_at = NULL]

\* POST /admin/courses/{id}/reset-to-open: courses.find_one and the check
admin_reset_course_to_open(s) ==
    /\ Free(s)
    /\ h' = [h EXCEPT ![s] =
               IF course.status = "ASSIGNED" /\ course.commission_paid
               THEN Answer("reset", "400")
               ELSE [Idle EXCEPT !.op = "reset", !.pc = "update"]]
    /\ UNCHANGED <<now, Store>>

\* courses.update_one({id}, $set OPEN ...)
reset_update(s) ==
    /\ h[s].op = "reset" /\ h[s].pc = "update"
    /\ course' = reset_set(course)
    /\ h' = [h EXCEPT ![s] = Return(s, "OPEN")]
    /\ UNCHANGED <<now, drivers, tokens, payments, gateway, notified>>

\* POST /admin/courses/{id}/mark-done: courses.find_one and the check
admin_mark_course_done(s) ==
    /\ Free(s)
    /\ h' = [h EXCEPT ![s] =
               IF course.status # "ASSIGNED"
               THEN Answer("mark_done", "400")
               ELSE [Idle EXCEPT !.op = "mark_done", !.pc = "update"]]
    /\ UNCHANGED <<now, Store>>

\* courses.update_one({id}, $set status DONE)
mark_done_update(s) ==
    /\ h[s].op = "mark_done" /\ h[s].pc = "update"
    /\ course' = [course EXCEPT !.status = "DONE"]
    /\ h' = [h EXCEPT ![s] = Return(s, "DONE")]
    /\ UNCHANGED <<now, drivers, tokens, payments, gateway, notified>>

\* ------------------------------------------------------------- admin, tokens
\* an update_many that matches no token
expire_tokens_none(ts, c) == ts

\* claim_tokens.update_many({course_id: c}, $set expires_at now)
expire_tokens(ts, c) ==
    [t \in DOMAIN ts |->
        IF ts[t].course_id = c THEN [ts[t] EXCEPT !.expires_at = now] ELSE ts[t]]

\* POST /admin/courses/{id}/regenerate-token: courses.find_one
admin_regenerate_claim_token(s) ==
    /\ Free(s)
    /\ Len(tokens) < MaxTokens
    /\ now + 1 <= MaxTime
    /\ h' = [h EXCEPT ![s] = [Idle EXCEPT !.op = "regenerate", !.pc = "update_many"]]
    /\ UNCHANGED <<now, Store>>

\* claim_tokens.update_many: the old tokens' expires_at is the instant of the
\* call; the round trip to the store takes time, so the handler resumes at a
\* later instant
regenerate_update_many(s) ==
    /\ h[s].op = "regenerate" /\ h[s].pc = "update_many"
    /\ tokens' = expire_tokens(tokens, CourseId)
    /\ now' = now + 1
    /\ h' = [h EXCEPT ![s] = [@ EXCEPT !.pc = "insert"]]
    /\ UNCHANGED <<course, drivers, payments, gateway, notified>>

\* claim_tokens.insert_one(ClaimToken(course_id, now + TTL)); the response
\* carries the new token
regenerate_insert_one(s) ==
    /\ h[s].op = "regenerate" /\ h[s].pc = "insert"
    /\ tokens' = Append(tokens, ClaimToken(CourseId, now))
    /\ h' = [h EXCEPT ![s] = [Return(s, "token") EXCEPT !.token = Len(tokens) + 1]]
    /\ UNCHANGED <<now, course, drivers, payments, gateway, notified>>

\* ---------------------------------------------------------------- accounts
\* the e-mail and password a DriverCreate or a DriverLogin may carry
DriverCreate ==
    {[email |-> e, password |-> p] : e \in 1..NumEmails, p \in 1..NumPasswords}

DriverLogin == DriverCreate

\* drivers.find_one({"email": email}): the first document with that e-mail,
\* NULL when there is none
find_one_email(email) ==
    LET found == {d \in DOMAIN drivers : drivers[d].email = email}
    IN IF found = {} THEN NULL
       ELSE CHOOSE d \in found : \A x \in found : d <= x

\* POST /driver/register: drivers.find_one by e-mail, 400 when it exists
register_driver(s, data) ==
    /\ Free(s)
    /\ Len(drivers)
         + Cardinality({x \in DOMAIN h : h[x].op = "register" /\ h[x].pc # "done"})
           < MaxDrivers
    /\ h' = [h EXCEPT ![s] =
               IF find_one_email(data.email) # NULL
               THEN [Answer("register", "400") EXCEPT !.data = data]
               ELSE [Idle EXCEPT !.op = "register", !.pc = "insert", !.data = data]]
    /\ UNCHANGED <<now, Store>>

\* drivers.insert_one(Driver(..., is_active=False)); the response carries
\* the new driver's id
register_insert_one(s) ==
    /\ h[s].op = "register" /\ h[s].pc = "insert"
    /\ drivers' = Append(drivers, Driver(h[s].data))
    /\ h' = [h EXCEPT ![s] =
               [Return(s, "registered") EXCEPT !.driver = Len(drivers) + 1,
                                               !.data = h[s].data]]
    /\ UNCHANGED <<now, course, tokens, payments, gateway, notified>>

\* a login that does not look at is_active
login_driver_any_account(s, data) ==
    /\ Free(s)
    /\ LET d == find_one_email(data.email)
       IN h' = [h EXCEPT ![s] =
                  IF d = NULL THEN [Answer("login", "401") EXCEPT !.data = data]
                  ELSE IF simple_hash(data.password) # drivers[d].password_hash
                  THEN [Answer("login", "401") EXCEPT !.data = data]
                  ELSE [Answer("login", "token") EXCEPT !.driver = d, !.data = data]]
    /\ UNCHANGED <<now, Store>>

\* POST /driver/login: drivers.find_one by e-mail, 401 when there is none or
\* verify_password fails, 403 when the account is not active, else the token
\* (the driver's id)
login_driver(s, data) ==
    /\ Free(s)
    /\ LET d == find_one_email(data.email)
       IN h' = [h EXCEPT ![s] =
                  IF d = NULL THEN [Answer("login", "401") EXCEPT !.data = data]
                  ELSE IF simple_hash(data.password) # drivers[d].password_hash
                  THEN [Answer("login", "401") EXCEPT !.data = data]
                  ELSE IF ~drivers[d].is_active
                  THEN [Answer("login", "403") EXCEPT !.data = data]
                  ELSE [Answer("login", "token") EXCEPT !.driver = d, !.data = data]]
    /\ UNCHANGED <<now, Store>>

\* ------------------------------------------------------------ admin, drivers
\* the answer of POST /drivers/{id}/activate: update_one({id}, $set
\* is_active True) and 404 when modified_count == 0, which is so when no
\* driver has the id and when the $set changes nothing
admin_activate_driver_answer(d) ==
    IF d \in DOMAIN drivers /\ ~drivers[d].is_active THEN "200" ELSE "404"

\* POST /drivers/{id}/activate, when it modifies the driver; a call that
\* is answered 404 has changed nothing
admin_activate_driver(d) ==
    /\ admin_activate_driver_answer(d) = "200"
    /\ drivers' = [drivers EXCEPT ![d].is_active = TRUE]
    /\ UNCHANGED <<now, course, tokens, payments, gateway, h, notified>>

\* POST /drivers/{id}/deactivate
admin_deactivate_driver(d) ==
    /\ d \in DOMAIN drivers
    /\ drivers[d].is_active
    /\ drivers' = [drivers EXCEPT ![d].is_active = FALSE]
    /\ UNCHANGED <<now, course, tokens, payments, gateway, h, notified>>

\* DELETE /drivers/{id}: courses.count_documents({assigned_driver_id: id}),
\* 400 when a course is assigned to the driver
admin_delete_driver(s, d) ==
    /\ Free(s)
    /\ h' = [h EXCEPT ![s] =
               IF course.assigned_driver_id = d THEN Answer("delete", "400")
               ELSE [Idle EXCEPT !.op = "delete", !.pc = "delete_one", !.driver = d]]
    /\ UNCHANGED <<now, Store>>

\* drivers.delete_one({id}); deleted_count == 0 answers 404
delete_one(s) ==
    /\ h[s].op = "delete" /\ h[s].pc = "delete_one"
    /\ IF h[s].driver \in DOMAIN drivers
       THEN /\ drivers' = [d \in DOMAIN drivers \ {h[s].driver} |-> drivers[d]]
            /\ h' = [h EXCEPT ![s] = Return(s, "deleted")]
       ELSE /\ h' = [h EXCEPT ![s] = Return(s, "404")]
            /\ UNCHANGED drivers
    /\ UNCHANGED <<now, course, tokens, payments, gateway, notified>>

\* -------------------------------------------------------------------- time
\* The clock is observed every ClockStep minutes: the shortest advance after
\* which a reservation made at the previous instant has lapsed.
ClockStep == RESERVATION_DURATION_MINUTES + 1

\* the clock advances, up to instant m
TickTo(m) ==
    /\ now + ClockStep <= m
    /\ now' = now + ClockStep
    /\ UNCHANGED <<Store, h>>

Tick == TickTo(MaxTime)

\* the clock advances by one minute
TickMinute ==
    /\ now + 1 <= MaxTime
    /\ now' = now + 1
    /\ UNCHANGED <<Store, h>>

\* ------------------------------------------------------------ specification
\* The store after admin_create_course has inserted one OPEN course and its
\* claim token, and the drivers have registered and await validation.
InitStore ==
    /\ now = 1
    /\ \E data \in CourseCreate : course = admin_create_course(data)
    /\ drivers = [d \in 1..NumDrivers |-> Registered(d)]
    /\ tokens = <<ClaimToken(CourseId, now)>>
    /\ payments = <<>>
    /\ gateway = <<>>
    /\ notified = <<>>

\* steps of the environment and one-step admin routes
Env ==
    \/ Tick
    \/ \E k \in DOMAIN gateway : checkout_completed(k)
    \/ \E d \in DOMAIN drivers : admin_activate_driver(d)
    \/ \E d \in DOMAIN drivers : admin_deactivate_driver(d)
    \/ admin_cancel_course

\* the claim flow: reserve, claim page, payment and its confirmation
ClaimFlow ==
    \/ \E s \in DOMAIN h, d \in DOMAIN drivers, t \in DOMAIN tokens : reserve_course(s, d, t)
    \/ \E s \in DOMAIN h : reserve_find_course(s)
    \/ \E s \in DOMAIN h : reserve_expire(s)
    \/ \E s \in DOMAIN h : reserve_find_one_and_update(s)
    \/ \E s \in DOMAIN h, t \in DOMAIN tokens : get_claim_info(s, t)
    \/ \E s \in DOMAIN h : claim_info_find_course(s)
    \/ \E s \in DOMAIN h : claim_info_expire(s)
    \/ \E s \in DOMAIN h, d \in DOMAIN drivers, t \in DOMAIN tokens : initiate_payment(s, d, t)
    \/ \E s \in DOMAIN h : pay_find_course(s)
    \/ \E s \in DOMAIN h : pay_create_session(s)
    \/ \E s \in DOMAIN h, k \in DOMAIN payments : get_payment_status(s, k)
    \/ \E s \in DOMAIN h, k \in DOMAIN payments : verify_payment(s, k)
    \/ \E s \in DOMAIN h, k \in DOMAIN payments : handle_stripe_webhook(s, k)
    \/ \E s \in DOMAIN h : finalize_attribution_find(s)
    \/ \E s \in DOMAIN h : finalize_attribution_update(s)
    \/ \E s \in DOMAIN h : payment_update(s)

\* cancellations and the admin's course routes
CourseAdmin ==
    \/ \E s \in DOMAIN h, d \in DOMAIN drivers : driver_cancel_course(s, d)
    \/ \E s \in DOMAIN h : driver_cancel_find_course(s)
    \/ \E s \in DOMAIN h : driver_cancel_update(s)
    \/ \E s \in DOMAIN h : driver_cancel_inc(s)
    \/ \E s \in DOMAIN h : admin_cancel_course_by_client(s)
    \/ \E s \in DOMAIN h : client_cancel_update(s)
    \/ \E s \in DOMAIN h : admin_reset_course_to_open(s)
    \/ \E s \in DOMAIN h : reset_update(s)
    \/ \E s \in DOMAIN h : admin_mark_course_done(s)
    \/ \E s \in DOMAIN h : mark_done_update(s)

\* Every route, one request in flight at a time, its steps interleaved with
\* the environment's.
Init ==
    /\ InitStore
    /\ h = [s \in {1} |-> Idle]

Next == Env \/ ClaimFlow \/ CourseAdmin

Spec == Init /\ [][Next]_vars

\* The claim flow with NumSlots requests in flight at once, their store
\* operations interleaved in every order; the drivers have been validated.
InitConc ==
    /\ now = 1
    /\ course = admin_create_course(CHOOSE data \in CourseCreate : TRUE)
    /\ drivers = [d \in 1..NumDrivers |-> Validated(d)]
    /\ tokens = <<ClaimToken(CourseId, now)>>
    /\ payments = <<>>
    /\ gateway = <<>>
    /\ notified = <<>>
    /\ h = [s \in 1..NumSlots |-> Idle]

NextConc ==
    \/ Tick
    \/ \E k \in DOMAIN gateway : checkout_completed(k)
    \/ \E s \in DOMAIN h, d \in DOMAIN drivers, t \in DOMAIN tokens : reserve_course(s, d, t)
    \/ \E s \in DOMAIN h : reserve_find_course(s)
    \/ \E s \in DOMAIN h : reserve_expire(s)
    \/ \E s \in DOMAIN h : reserve_find_one_and_update(s)
    \/ \E s \in DOMAIN h, t \in DOMAIN tokens : get_claim_info(s, t)
    \/ \E s \in DOMAIN h : claim_info_find_course(s)
    \/ \E s \in DOMAIN h : claim_info_expire(s)
    \/ \E s \in DOMAIN h, d \in DOMAIN drivers, t \in DOMAIN tokens : initiate_payment(s, d, t)
    \/ \E s \in DOMAIN h : pay_find_course(s)
    \/ \E s \in DOMAIN h : pay_create_session(s)
    \/ \E s \in DOMAIN h, k \in DOMAIN payments : get_payment_status(s, k)
    \/ \E s \in DOMAIN h, k \in DOMAIN payments : handle_stripe_webhook(s, k)
    \/ \E s \in DOMAIN h : finalize_attribution_find(s)
    \/ \E s \in DOMAIN h : finalize_attribution_update(s)
    \/ \E s \in DOMAIN h : payment_update(s)

SpecConc == InitConc /\ [][NextConc]_vars

\* NumRacers validated drivers each post /claim/{token}/reserve once for the
\* OPEN course (racer s is driver s); the calls run to completion, in every
\* interleaving, while the winner's reservation is running.
InitRace ==
    /\ now = 1
    /\ course = admin_create_course(CHOOSE data \in CourseCreate : TRUE)
    /\ drivers = [d \in 1..NumRacers |-> Validated(d)]
    /\ tokens = <<ClaimToken(CourseId, now)>>
    /\ payments = <<>>
    /\ gateway = <<>>
    /\ notified = <<>>
    /\ h = [s \in 1..NumRacers |-> Idle]

NextRace ==
    \/ \E s \in DOMAIN h : h[s].pc = "idle" /\ reserve_course(s, s, 1)
    \/ \E s \in DOMAIN h : reserve_find_course(s)
    \/ \E s \in DOMAIN h : reserve_expire(s)
    \/ \E s \in DOMAIN h : reserve_find_one_and_update(s)

SpecRace == InitRace /\ [][NextRace]_vars

\* The payment confirmation with its failures: the deliveries the webhook
\* route can receive and store operations that raise during its processing,
\* next to reserve, payment and polling; one request at a time; the drivers
\* have been validated.
InitHook ==
    /\ now = 1
    /\ course = admin_create_course(CHOOSE data \in CourseCreate : TRUE)
    /\ drivers = [d \in 1..NumDrivers |-> Validated(d)]
    /\ tokens = <<ClaimToken(CourseId, now)>>
    /\ payments = <<>>
    /\ gateway = <<>>
    /\ notified = <<>>
    /\ h = [s \in {1} |-> Idle]

NextHook ==
    \/ TickTo(MaxHookTime)
    \/ \E k \in DOMAIN gateway : checkout_completed(k)
    \/ \E s \in DOMAIN h, d \in DOMAIN drivers, t \in DOMAIN tokens : reserve_course(s, d, t)
    \/ \E s \in DOMAIN h : reserve_find_course(s)
    \/ \E s \in DOMAIN h : reserve_expire(s)
    \/ \E s \in DOMAIN h : reserve_find_one_and_update(s)
    \/ \E s \in DOMAIN h, d \in DOMAIN drivers, t \in DOMAIN tokens : initiate_payment(s, d, t)
    \/ \E s \in DOMAIN h : pay_find_course(s)
    \/ \E s \in DOMAIN h : pay_create_session(s)
    \/ \E s \in DOMAIN h, k \in DOMAIN payments : get_payment_status(s, k)
    \/ \E s \in DOMAIN h, k \in DOMAIN payments : handle_stripe_webhook(s, k)
    \/ \E s \in DOMAIN h, e \in WebhookEvents : webhook_event(s, e)
    \/ \E s \in DOMAIN h : webhook_store_error(s)
    \/ \E s \in DOMAIN h : finalize_attribution_find(s)
    \/ \E s \in DOMAIN h : finalize_attribution_update(s)
    \/ \E s \in DOMAIN h : payment_update(s)

SpecHook == InitHook /\ [][NextHook]_vars

\* a poll or a delivery for session k that gets as far as finalize_attribution
ConfirmStart(s, k) ==
    /\ get_payment_status(s, k) \/ handle_stripe_webhook(s, k)
    /\ h'[s].pc = "finalize_find"

\* the store operations of the confirmation of session k
ConfirmFind(s, k) == h[s].session = k /\ finalize_attribution_find(s)

ConfirmUpdate(s, k) == h[s].session = k /\ finalize_attribution_update(s)

ConfirmPayment(s, k) == h[s].session = k /\ payment_update(s)

\* a request started by a handler's first step runs on to its answer
HandlerStep(s) ==
    \/ reserve_find_course(s) \/ reserve_expire(s) \/ reserve_find_one_and_update(s)
    \/ pay_find_course(s) \/ pay_create_session(s)
    \/ finalize_attribution_find(s) \/ finalize_attribution_update(s)
    \/ payment_update(s) \/ webhook_store_error(s)

\* The payment confirmation as the gateway and the payment page drive it:
\* the page polls the status of a session again and again and the gateway
\* redelivers an event that was answered with an error, a request that has
\* started runs to its answer, and no store operation fails every time.
SpecRecover ==
    /\ SpecHook
    /\ \A s \in {1} :
          /\ WF_vars(HandlerStep(s))
          /\ \A k \in 1..MaxPayments :
                /\ SF_vars(ConfirmStart(s, k))
                /\ SF_vars(ConfirmFind(s, k))
                /\ SF_vars(ConfirmUpdate(s, k))
                /\ SF_vars(ConfirmPayment(s, k))

\* The reservation timer minute by minute: the claim page, reserve and
\* initiate_payment, one request at a time, while a reservation runs and
\* after it has run out; the drivers have been validated.
InitTimer ==
    /\ now = 1
    /\ course = admin_create_course(CHOOSE data \in CourseCreate : TRUE)
    /\ drivers = [d \in 1..NumDrivers |-> Validated(d)]
    /\ tokens = <<ClaimToken(CourseId, now)>>
    /\ payments = <<>>
    /\ gateway = <<>>
    /\ notified = <<>>
    /\ h = [s \in {1} |-> Idle]

NextTimer ==
    \/ TickMinute
    \/ \E s \in DOMAIN h, d \in DOMAIN drivers, t \in DOMAIN tokens : reserve_course(s, d, t)
    \/ \E s \in DOMAIN h : reserve_find_course(s)
    \/ \E s \in DOMAIN h : reserve_expire(s)
    \/ \E s \in DOMAIN h : reserve_find_one_and_update(s)
    \/ \E s \in DOMAIN h, t \in DOMAIN tokens : get_claim_info(s, t)
    \/ \E s \in DOMAIN h : claim_info_find_course(s)
    \/ \E s \in DOMAIN h : claim_info_expire(s)
    \/ \E s \in DOMAIN h, d \in DOMAIN drivers, t \in DOMAIN tokens : initiate_payment(s, d, t)
    \/ \E s \in DOMAIN h : pay_find_course(s)
    \/ \E s \in DOMAIN h : pay_create_session(s)

SpecTimer == InitTimer /\ [][NextTimer]_vars

\* the claim tokens of this model's course
CourseTokens == {t \in DOMAIN tokens : tokens[t].course_id = CourseId}

\* The claim links: the routes that take a claim token and the admin's
\* regeneration of the link, one request at a time; another course has a
\* token of its own; the drivers have been validated.
InitToken ==
    /\ now = 1
    /\ course = admin_create_course(CHOOSE data \in CourseCreate : TRUE)
    /\ drivers = [d \in 1..NumDrivers |-> Validated(d)]
    /\ tokens = <<ClaimToken(CourseId, now), ClaimToken(OtherCourseId, now)>>
    /\ payments = <<>>
    /\ gateway = <<>>
    /\ notified = <<>>
    /\ h = [s \in {1} |-> Idle]

NextToken ==
    \/ Tick
    \/ \E s \in DOMAIN h : admin_regenerate_claim_token(s)
    \/ \E s \in DOMAIN h : regenerate_update_many(s)
    \/ \E s \in DOMAIN h : regenerate_insert_one(s)
    \/ \E s \in DOMAIN h, d \in DOMAIN drivers, t \in CourseTokens : reserve_course(s, d, t)
    \/ \E s \in DOMAIN h : reserve_find_course(s)
    \/ \E s \in DOMAIN h : reserve_expire(s)
    \/ \E s \in DOMAIN h : reserve_find_one_and_update(s)
    \/ \E s \in DOMAIN h, t \in CourseTokens : get_claim_info(s, t)
    \/ \E s \in DOMAIN h : claim_info_find_course(s)
    \/ \E s \in DOMAIN h : claim_info_expire(s)
    \/ \E s \in DOMAIN h, d \in DOMAIN drivers, t \in CourseTokens : initiate_payment(s, d, t)
    \/ \E s \in DOMAIN h : pay_find_course(s)
    \/ \E s \in DOMAIN h : pay_create_session(s)

SpecToken == InitToken /\ [][NextToken]_vars

\* The life of an assigned course: reservation, payment and attribution,
\* then the cancellations, mark-done and reset, one request at a time; the
\* drivers have been validated and may have cancelled earlier courses late.
InitCancel ==
    /\ now = 1
    /\ course = admin_create_course(CHOOSE data \in CourseCreate : TRUE)
    /\ \E n \in [1..NumDrivers -> 0..PriorLate] :
          drivers = [d \in 1..NumDrivers |->
                       [Validated(d) EXCEPT !.late_cancellation_count = n[d]]]
    /\ tokens = <<ClaimToken(CourseId, now)>>
    /\ payments = <<>>
    /\ gateway = <<>>
    /\ notified = <<>>
    /\ h = [s \in {1} |-> Idle]

NextCancel ==
    \/ Tick
    \/ \E k \in DOMAIN gateway : checkout_completed(k)
    \/ \E s \in DOMAIN h, d \in DOMAIN drivers, t \in DOMAIN tokens : reserve_course(s, d, t)
    \/ \E s \in DOMAIN h : reserve_find_course(s)
    \/ \E s \in DOMAIN h : reserve_expire(s)
    \/ \E s \in DOMAIN h : reserve_find_one_and_update(s)
    \/ \E s \in DOMAIN h, d \in DOMAIN drivers, t \in DOMAIN tokens : initiate_payment(s, d, t)
    \/ \E s \in DOMAIN h : pay_find_course(s)
    \/ \E s \in DOMAIN h : pay_create_session(s)
    \/ \E s \in DOMAIN h, k \in DOMAIN payments : get_payment_status(s, k)
    \/ \E s \in DOMAIN h : finalize_attribution_find(s)
    \/ \E s \in DOMAIN h : finalize_attribution_update(s)
    \/ \E s \in DOMAIN h : payment_update(s)
    \/ \E s \in DOMAIN h, d \in DOMAIN drivers : driver_cancel_course(s, d)
    \/ \E s \in DOMAIN h : driver_cancel_find_course(s)
    \/ \E s \in DOMAIN h : driver_cancel_update(s)
    \/ \E s \in DOMAIN h : driver_cancel_inc(s)
    \/ \E s \in DOMAIN h : admin_cancel_course_by_client(s)
    \/ \E s \in DOMAIN h : client_cancel_update(s)
    \/ admin_cancel_course
    \/ \E s \in DOMAIN h : admin_reset_course_to_open(s)
    \/ \E s \in DOMAIN h : reset_update(s)
    \/ \E s \in DOMAIN h : admin_mark_course_done(s)
    \/ \E s \in DOMAIN h : mark_done_update(s)

SpecCancel == InitCancel /\ [][NextCancel]_vars

\* The accounts: drivers register, NumSlots requests at once, the admin
\* validates and suspends accounts, and drivers log in.  No driver has
\* registered yet.
InitAccounts ==
    /\ now = 1
    /\ course = admin_create_course(CHOOSE data \in CourseCreate : TRUE)
    /\ drivers = <<>>
    /\ tokens = <<ClaimToken(CourseId, now)>>
    /\ payments = <<>>
    /\ gateway = <<>>
    /\ notified = <<>>
    /\ h = [s \in 1..NumSlots |-> Idle]

NextAccounts ==
    \/ \E s \in DOMAIN h, data \in DriverCreate : register_driver(s, data)
    \/ \E s \in DOMAIN h : register_insert_one(s)
    \/ \E s \in DOMAIN h, data \in DriverLogin : login_driver(s, data)
    \/ \E d \in DOMAIN drivers : admin_activate_driver(d)
    \/ \E d \in DOMAIN drivers : admin_deactivate_driver(d)

SpecAccounts == InitAccounts /\ [][NextAccounts]_vars

\* The commission of a course at every price: one validated driver
\* reserves, opens checkout sessions, pays, and the poll finalizes.
InitMoney ==
    /\ now = 1
    /\ \E data \in CoursePrices : course = admin_create_course(data)
    /\ drivers = [d \in {1} |-> Validated(d)]
    /\ tokens = <<ClaimToken(CourseId, now)>>
    /\ payments = <<>>
    /\ gateway = <<>>
    /\ notified = <<>>
    /\ h = [s \in {1} |-> Idle]

NextMoney ==
    \/ \E k \in DOMAIN gateway : checkout_completed(k)
    \/ \E s \in DOMAIN h, d \in DOMAIN drivers, t \in DOMAIN tokens : reserve_course(s, d, t)
    \/ \E s \in DOMAIN h : reserve_find_course(s)
    \/ \E s \in DOMAIN h : reserve_expire(s)
    \/ \E s \in DOMAIN h : reserve_find_one_and_update(s)
    \/ \E s \in DOMAIN h, d \in DOMAIN drivers, t \in DOMAIN tokens : initiate_payment(s, d, t)
    \/ \E s \in DOMAIN h : pay_find_course(s)
    \/ \E s \in DOMAIN h : pay_create_session(s)
    \/ \E s \in DOMAIN h, k \in DOMAIN payments : get_payment_status(s, k)
    \/ \E s \in DOMAIN h : finalize_attribution_find(s)
    \/ \E s \in DOMAIN h : finalize_attribution_update(s)
    \/ \E s \in DOMAIN h : payment_update(s)

SpecMoney == InitMoney /\ [][NextMoney]_vars

\* The admin deletes driver accounts while the claim flow runs: reserve,
\* payment and its confirmation by polling, one request at a time, with the
\* token of any driver that has registered, deleted since or not; the
\* drivers have been validated.
InitDelete ==
    /\ now = 1
    /\ course = admin_create_course(CHOOSE data \in CourseCreate : TRUE)
    /\ drivers = [d \in 1..NumDrivers |-> Validated(d)]
    /\ tokens = <<ClaimToken(CourseId, now)>>
    /\ payments = <<>>
    /\ gateway = <<>>
    /\ notified = <<>>
    /\ h = [s \in {1} |-> Idle]

NextDelete ==
    \/ Tick
    \/ \E k \in DOMAIN gateway : checkout_completed(k)
    \/ \E s \in DOMAIN h, d \in 1..NumDrivers : admin_delete_driver(s, d)
    \/ \E s \in DOMAIN h : delete_one(s)
    \/ \E s \in DOMAIN h, d \in 1..NumDrivers, t \in DOMAIN tokens : reserve_course(s, d, t)
    \/ \E s \in DOMAIN h : reserve_find_course(s)
    \/ \E s \in DOMAIN h : reserve_expire(s)
    \/ \E s \in DOMAIN h : reserve_find_one_and_update(s)
    \/ \E s \in DOMAIN h, d \in 1..NumDrivers, t \in DOMAIN tokens : initiate_payment(s, d, t)
    \/ \E s \in DOMAIN h : pay_find_course(s)
    \/ \E s \in DOMAIN h : pay_create_session(s)
    \/ \E s \in DOMAIN h, k \in DOMAIN payments : get_payment_status(s, k)
    \/ \E s \in DOMAIN h : finalize_attribution_find(s)
    \/ \E s \in DOMAIN h : finalize_attribution_update(s)
    \/ \E s \in DOMAIN h : payment_update(s)

SpecDelete == InitDelete /\ [][NextDelete]_vars

\* The driver's cancel route with NumSlots requests in flight at once, on a
\* course that driver 1 has paid for and been assigned, before and after the
\* last hour before the pickup.
InitCancelRace ==
    /\ now = 1
    /\ course = finalize_set(admin_create_course(CHOOSE data \in CourseCreate : TRUE), 1)
    /\ drivers = [d \in 1..NumDrivers |-> Validated(d)]
    /\ tokens = <<ClaimToken(CourseId, now)>>
    /\ payments = <<[CommissionPayment(1, course.commission_amount)
                       EXCEPT !.status = "paid", !.paid_at = now]>>
    /\ gateway = <<[CheckoutSession(commission_cents(course))
                      EXCEPT !.payment_status = "paid"]>>
    /\ notified = <<1>>
    /\ h = [s \in 1..NumSlots |-> Idle]

NextCancelRace ==
    \/ Tick
    \/ \E s \in DOMAIN h, d \in DOMAIN drivers : driver_cancel_course(s, d)
    \/ \E s \in DOMAIN h : driver_cancel_find_course(s)
    \/ \E s \in DOMAIN h : driver_cancel_update(s)
    \/ \E s \in DOMAIN h : driver_cancel_inc(s)

SpecCancelRace == InitCancelRace /\ [][NextCancelRace]_vars

\* the course as a poll may find it: RESERVED by driver 1, ASSIGNED to
\* driver 1, or ASSIGNED to driver 2
PollCourses ==
    LET c == admin_create_course(CHOOSE data \in CourseCreate : TRUE)
    IN {[c EXCEPT !.status = "RESERVED",
                  !.reserved_by_driver_id = 1,
                  !.reserved_until = 1 + RESERVATION_DURATION_MINUTES]}
       \cup {[finalize_set(c, d) EXCEPT !.assigned_at = 1, !.commission_paid_at = 1]
                : d \in 1..NumDrivers}

\* the CommissionPayment records a session of driver 1 may have next to
\* course c: none (the session is not one of this store's), pending, paid
\* once the course has been assigned to driver 1, refund_needed once it has
\* been assigned to another driver
PollPayments(c) ==
    LET p == CommissionPayment(1, c.commission_amount)
    IN {<<>>, <<p>>}
       \cup (IF c.status = "ASSIGNED" /\ c.assigned_driver_id = 1
             THEN {<<[p EXCEPT !.status = "paid", !.paid_at = 1]>>} ELSE {})
       \cup (IF c.status = "ASSIGNED" /\ c.assigned_driver_id # 1
             THEN {<<[p EXCEPT !.status = "refund_needed", !.paid_at = 1]>>} ELSE {})

\* The two polling routes on one checkout session, in every state of the
\* course, of the session's record and of the gateway, one request at a
\* time; the gateway may be unreachable.
InitPoll ==
    /\ now = 1
    /\ course \in PollCourses
    /\ drivers = [d \in 1..NumDrivers |-> Validated(d)]
    /\ tokens = <<ClaimToken(CourseId, now)>>
    /\ payments \in PollPayments(course)
    /\ \E status \in {"unpaid", "paid"} :
          gateway = <<[CheckoutSession(commission_cents(course))
                         EXCEPT !.payment_status = status]>>
    /\ notified = <<0>>
    /\ h = [s \in {1} |-> Idle]

NextPoll ==
    \/ Tick
    \/ \E k \in DOMAIN gateway : checkout_completed(k)
    \/ \E s \in DOMAIN h, k \in DOMAIN gateway : get_payment_status(s, k)
    \/ \E s \in DOMAIN h, k \in DOMAIN gateway : verify_payment(s, k)
    \/ \E s \in DOMAIN h, k \in DOMAIN gateway, op \in {"status", "verify"} :
          retrieve_error(s, k, op)
    \/ \E s \in DOMAIN h : finalize_attribution_find(s)
    \/ \E s \in DOMAIN h : finalize_attribution_update(s)
    \/ \E s \in DOMAIN h : payment_update(s)

SpecPoll == InitPoll /\ [][NextPoll]_vars

\* the token strings a request may carry for this model's course: its
\* stored tokens, and a string that is no stored token
TokenStrings == CourseTokens \cup {MaxTokens + 1}

\* The claim links followed with any token string: the claim page and
\* reserve, next to the admin's regeneration of the link, one request at a
\* time; the drivers have been validated.
NextLink ==
    \/ Tick
    \/ \E s \in DOMAIN h : admin_regenerate_claim_token(s)
    \/ \E s \in DOMAIN h : regenerate_update_many(s)
    \/ \E s \in DOMAIN h : regenerate_insert_one(s)
    \/ \E s \in DOMAIN h, d \in DOMAIN drivers, t \in TokenStrings : reserve_course(s, d, t)
    \/ \E s \in DOMAIN h : reserve_find_course(s)
    \/ \E s \in DOMAIN h : reserve_expire(s)
    \/ \E s \in DOMAIN h : reserve_find_one_and_update(s)
    \/ \E s \in DOMAIN h, t \in TokenStrings : get_claim_info(s, t)
    \/ \E s \in DOMAIN h : claim_info_find_course(s)
    \/ \E s \in DOMAIN h : claim_info_expire(s)

SpecLink == InitToken /\ [][NextLink]_vars

\* ==================================================================== claims
Terminal == {"DONE", "CANCELLED", "CANCELLED_LATE_DRIVER", "CANCELLED_LATE_CLIENT"}

\* handler s takes a step out of position pc
Leaves(s, pc) == h[s].pc = pc /\ h'[s] # h[s]

\* ------------------------------------------------------------------------ C1
Winners == {s \in DOMAIN h : h[s].pc = "done" /\ h[s].res = "reserved"}

RaceDone == \A s \in DOMAIN h : h[s].pc = "done"

\* C1: of N distinct validated drivers reserving the OPEN course at once, in
\* any interleaving of their store operations, never more than one has been
\* answered with success, and when all have been answered exactly one has
\* success, the course is RESERVED by that driver, and every other call was
\* answered 409 Conflict.
C1_MutualExclusion ==
    /\ Cardinality(Winners) <= 1
    /\ RaceDone =>
          /\ Cardinality(Winners) = 1
          /\ \A s \in Winners :
                /\ course.status = "RESERVED"
                /\ course.reserved_by_driver_id = s
          /\ \A s \in DOMAIN h \ Winners : h[s].res = "409"

C1_Witness == RaceDone /\ Cardinality(Winners) = 1

\* ------------------------------------------------------------------------ C2
\* C2: whatever the interleaving of polling and webhook deliveries, no
\* session produces more than one transition to ASSIGNED: at most one
\* finalization update, hence one assignment notification, per session.
C2_OneAssignedTransition == \A k \in DOMAIN notified : notified[k] <= 1

\* ------------------------------------------------------------------------ C3
\* C3: reserved_by_driver_id and assigned_driver_id are never both non-null.
C3_ReservedXorAssigned ==
    ~(course.reserved_by_driver_id # NULL /\ course.assigned_driver_id # NULL)

\* ------------------------------------------------------------------------ C4
\* C4 as stated: commission_paid implies status ASSIGNED, in every state.
C4_PaidImpliesAssigned == course.commission_paid => course.status = "ASSIGNED"

\* C4 amended: commission_paid becomes true only in an update that leaves the
\* course ASSIGNED to a driver, and no operation ever clears it again.
C4_PaidSetWithAssigned ==
    [][/\ (~course.commission_paid /\ course'.commission_paid) =>
              /\ course'.status = "ASSIGNED"
              /\ course'.assigned_driver_id # NULL
       /\ course.commission_paid => course'.commission_paid]_vars

C4_Witness == course.commission_paid /\ course.status = "DONE"

\* ------------------------------------------------------------------------ C5
\* C5: a finalization for driver D that loads the course in any status other
\* than ASSIGNED (so also with D's reservation run out, swept back to OPEN or
\* not) goes on to its update, and the update leaves the course ASSIGNED to D
\* with commission_paid true and the reservation fields cleared, and finalize
\* returns true.
C5_PaymentOverridesTimer ==
    [][\A s \in DOMAIN h :
          /\ (Leaves(s, "finalize_find") /\ course.status # "ASSIGNED") =>
                h'[s].pc = "finalize_update"
          /\ Leaves(s, "finalize_update") =>
                /\ h'[s].fin = "true"
                /\ course'.status = "ASSIGNED"
                /\ course'.assigned_driver_id = h[s].driver
                /\ course'.commission_paid
                /\ course'.reserved_by_driver_id = NULL
                /\ course'.reserved_until = NULL]_vars

\* a finalization has assigned the course after the reservation it had
\* loaded had run out
C5_Witness ==
    \E s \in DOMAIN h :
        /\ h[s].pc = "payment_update" /\ h[s].fin = "true"
        /\ h[s].snap.status = "RESERVED"
        /\ h[s].snap.reserved_by_driver_id = h[s].driver
        /\ course.status = "ASSIGNED"
        /\ course.assigned_driver_id = h[s].driver
        /\ course.assigned_at > h[s].snap.reserved_until

\* ------------------------------------------------------------------------ C6
\* C6: a finalization for driver A that loads the course ASSIGNED to another
\* driver returns false at once and writes nothing to the Course.
C6_AssignedToOtherFails ==
    [][\A s \in DOMAIN h :
          (/\ Leaves(s, "finalize_find")
           /\ course.status = "ASSIGNED"
           /\ course.assigned_driver_id # h[s].driver) =>
                /\ h'[s].pc = "payment_update"
                /\ h'[s].fin = "false"
                /\ course' = course]_vars

C6_Witness ==
    \E s \in DOMAIN h :
        /\ h[s].pc = "payment_update" /\ h[s].fin = "false"
        /\ course.status = "ASSIGNED"
        /\ course.assigned_driver_id # h[s].driver

\* ------------------------------------------------------------------------ C7
\* C7: a CommissionPayment is set to paid only by a caller whose
\* finalize_attribution returned true.
C7_PaidOnlyAfterSuccess ==
    [][\A s \in DOMAIN h :
          (/\ Leaves(s, "payment_update")
           /\ payments'[h[s].session].status = "paid") => h[s].fin = "true"]_vars

\* ------------------------------------------------------------------------ C8
\* C8: no course becomes RESERVED by or ASSIGNED to a driver, and no
\* CommissionPayment is created for a driver, whose is_active is false at the
\* moment of that write.
C8_InactiveDriverExcluded ==
    [][/\ (/\ course'.reserved_by_driver_id # NULL
           /\ course'.reserved_by_driver_id # course.reserved_by_driver_id) =>
                drivers[course'.reserved_by_driver_id].is_active
       /\ (/\ course'.assigned_driver_id # NULL
           /\ \/ course'.assigned_driver_id # course.assigned_driver_id
              \/ course'.status = "ASSIGNED" /\ course.status # "ASSIGNED") =>
                drivers[course'.assigned_driver_id].is_active
       /\ Len(payments') > Len(payments) =>
                drivers[payments'[Len(payments')].driver_id].is_active]_vars

\* ------------------------------------------------------------------------ C9
\* C9: a get_claim_info or reserve that has loaded the course RESERVED with
\* reserved_until in the past stores it as OPEN with reserved_by_driver_id and
\* reserved_until cleared; get_claim_info reports OPEN and reserve goes on to
\* its conditional update; and a reserve whose conditional update finds the
\* course OPEN succeeds, leaving it RESERVED by the caller for the
\* reservation duration.
C9_ExpiryReclaim ==
    [][\A s \in DOMAIN h :
          /\ (/\ Leaves(s, "expire")
              /\ h[s].snap.status = "RESERVED"
              /\ h[s].snap.reserved_until # NULL
              /\ now > h[s].snap.reserved_until) =>
                /\ course'.status = "OPEN"
                /\ course'.reserved_by_driver_id = NULL
                /\ course'.reserved_until = NULL
                /\ h[s].op = "claim_info" => h'[s].res = "OPEN"
                /\ h[s].op = "reserve" => h'[s].pc = "update"
          /\ (/\ h[s].op = "reserve"
              /\ Leaves(s, "update")
              /\ course.status = "OPEN") =>
                /\ h'[s].res = "reserved"
                /\ course'.status = "RESERVED"
                /\ course'.reserved_by_driver_id = h[s].driver
                /\ course'.reserved_until = now + RESERVATION_DURATION_MINUTES]_vars

\* a driver has reserved the course after expiring another driver's
\* reservation
C9_Witness ==
    \E s \in DOMAIN h :
        /\ h[s].op = "reserve" /\ h[s].pc = "done" /\ h[s].res = "reserved"
        /\ h[s].snap.status = "RESERVED"
        /\ course.status = "RESERVED"
        /\ course.reserved_by_driver_id # h[s].snap.reserved_by_driver_id
        /\ course.reserved_until > h[s].snap.reserved_until

\* ----------------------------------------------------------------------- C10
\* a step of reserve, of the claim page or of a payment confirmation
AutomaticStep ==
    \E s \in DOMAIN h :
        /\ h'[s] # h[s]
        /\ IF Free(s) THEN h'[s].op \in {"reserve", "claim_info", "status", "verify", "webhook"}
           ELSE h[s].op \in {"reserve", "claim_info", "status", "verify", "webhook"}

\* C10: once the status is DONE or a CANCELLED variant, no step of reserve,
\* of the expiry sweep or of a payment confirmation changes it.
C10_TerminalStays ==
    [][(course.status \in Terminal /\ AutomaticStep) =>
          course'.status = course.status]_vars

\* ----------------------------------------------------------------------- C11
\* C11: a reset-to-open request that finds the course with commission_paid
\* true is answered with a rejection (400), whatever the course's status.
C11_ResetRejectsPaid ==
    [][\A s \in DOMAIN h :
          (/\ Free(s)
           /\ h'[s] # h[s]
           /\ h'[s].op = "reset"
           /\ course.commission_paid) => h'[s].res = "400"]_vars

\* ----------------------------------------------------------------------- C12
\* C12: a get_claim_info that has loaded the course with a status other than
\* ASSIGNED answers null for pickup_address, dropoff_address, client_phone,
\* client_email and notes; one that has loaded it ASSIGNED answers the five
\* stored values.
C12_DetailsMaskedUntilAssigned ==
    [][\A s \in DOMAIN h :
          (h[s].op = "claim_info" /\ Leaves(s, "expire")) =>
             LET b == h'[s].body
             IN IF h[s].snap.status = "ASSIGNED"
                THEN /\ b.status = "ASSIGNED"
                     /\ b.pickup_address = course.pickup_address
                     /\ b.dropoff_address = course.dropoff_address
                     /\ b.client_phone = course.client_phone
                     /\ b.client_email = course.client_email
                     /\ b.notes = course.notes
                ELSE /\ b.status # "ASSIGNED"
                     /\ b.pickup_address = NULL
                     /\ b.dropoff_address = NULL
                     /\ b.client_phone = NULL
                     /\ b.client_email = NULL
                     /\ b.notes = NULL]_vars

\* the claim page of an ASSIGNED course has been answered with the stored
\* details
C12_Witness ==
    \E s \in DOMAIN h :
        /\ h[s].op = "claim_info" /\ h[s].pc = "done"
        /\ h[s].body.status = "ASSIGNED"
        /\ h[s].body.pickup_address = course.pickup_address
        /\ h[s].body.pickup_address # NULL
        /\ h[s].body.notes = course.notes

\* ----------------------------------------------------------------------- C13
\* document c with the client's details replaced by those of `data`
WithDetails(c, data) ==
    [c EXCEPT !.pickup_address = data.pickup_address,
              !.dropoff_address = data.dropoff_address,
              !.client_phone = data.client_phone,
              !.client_email = data.client_email,
              !.notes = data.notes]

\* C13: get_claim_info takes no credentials, so its answer is the one given
\* to a caller who is not the assigned driver: that answer is the same
\* whatever full addresses, phone, email and notes the course holds.
C13_ViewIndependentOfDetails ==
    [][\A s \in DOMAIN h :
          (h[s].op = "claim_info" /\ Leaves(s, "expire")) =>
             \A data \in CourseCreate :
                h'[s].body = claim_view(swept(WithDetails(h[s].snap, data)))]_vars

\* ----------------------------------------------------------------------- C14
\* C14: get_claim_info, reserve and initiate_payment called by a validated
\* driver with a claim token whose expires_at has passed are all answered
\* 410 (Expired) by their first step.
C14_ExpiredTokenGrantsNothing ==
    [][\A s \in DOMAIN h, d \in DOMAIN drivers, t \in DOMAIN tokens :
          (/\ now > tokens[t].expires_at
           /\ get_driver_from_token(d) = "ok"
           /\ \/ get_claim_info(s, t)
              \/ reserve_course(s, d, t)
              \/ initiate_payment(s, d, t)) => h'[s].res = "410"]_vars

\* ----------------------------------------------------------------------- C15
\* C15: regenerate's update_many leaves every token of the course with an
\* expires_at that lies before the instant at which the handler resumes and
\* leaves the tokens of other courses as they were; its insert_one adds one
\* token of the course that expires CLAIM_TOKEN_EXPIRY_MINUTES later; when it
\* returns every older token of the course is answered 410 by the token
\* check of get_claim_info and reserve and the new one is accepted; no step
\* of regenerate changes the Course; and after any step a token whose
\* expires_at had passed still has an expires_at that has passed.
C15_RegenerateExpiresOldTokens ==
    [][/\ \A s \in DOMAIN h :
             /\ (h[s].op = "regenerate" /\ Leaves(s, "update_many")) =>
                   /\ DOMAIN tokens' = DOMAIN tokens
                   /\ \A t \in DOMAIN tokens :
                         IF tokens[t].course_id = CourseId
                         THEN tokens'[t].expires_at < now'
                         ELSE tokens'[t] = tokens[t]
                   /\ course' = course
             /\ (h[s].op = "regenerate" /\ Leaves(s, "insert")) =>
                   /\ Len(tokens') = Len(tokens) + 1
                   /\ \A t \in DOMAIN tokens : tokens'[t] = tokens[t]
                   /\ tokens'[Len(tokens')] =
                         [course_id |-> CourseId,
                          expires_at |-> now + CLAIM_TOKEN_EXPIRY_MINUTES]
                   /\ \A t \in DOMAIN tokens :
                         tokens[t].course_id = CourseId => find_claim(t)' = "410"
                   /\ \E t \in DOMAIN tokens' :
                         t = Len(tokens) + 1 /\ find_claim(t)' = "ok"
                   /\ h'[s].token = Len(tokens')
                   /\ course' = course
       /\ \A t \in DOMAIN tokens :
             now > tokens[t].expires_at => now' > tokens'[t].expires_at]_vars

\* after a regeneration, a reserve with an old link has been answered 410
\* and the new link is accepted
C15_Witness ==
    /\ Len(tokens) > 2
    /\ find_claim(Len(tokens)) = "ok"
    /\ \E s \in DOMAIN h :
          h[s].op = "reserve" /\ h[s].pc = "done" /\ h[s].res = "410"

C17_WebhookRedeliveryIdempotent ==
    [][\A s \in DOMAIN h :
          (/\ h[s].op = "webhook"
           /\ h[s].pc \in {"finalize_find", "finalize_update", "payment_update"}
           /\ h'[s] # h[s]
           /\ payments[h[s].session].status \in {"paid", "refund_needed"}) =>
                /\ course' = course
                /\ payments' = payments]_vars

\* ----------------------------------------------------------------------- C18
\* C18: get_payment_status and verify_payment write nothing in their first
\* step and go on to finalize_attribution exactly when the gateway reports
\* the session paid and the CommissionPayment is not yet paid, answering at
\* once otherwise; and the payment update that ends a poll leaves the
\* CommissionPayment paid and the Course as finalize left it.  A repeated
\* poll therefore answers at once and changes neither record.
C18_PollIdempotent ==
    [][\A s \in DOMAIN h :
          /\ \A k \in DOMAIN payments :
                (get_payment_status(s, k) \/ verify_payment(s, k)) =>
                   /\ course' = course
                   /\ payments' = payments
                   /\ IF gateway[k].payment_status = "paid" /\ payments[k].status # "paid"
                      THEN h'[s].pc = "finalize_find"
                      ELSE h'[s].pc = "done"
          /\ (h[s].op \in {"status", "verify"} /\ Leaves(s, "payment_update")) =>
                /\ payments'[h[s].session].status = "paid"
                /\ course' = course]_vars

\* a poll of a session that is paid at the gateway and already paid in the
\* store has been answered without finalizing
C18_Witness ==
    \E s \in DOMAIN h :
        /\ h[s].op \in {"status", "verify"} /\ h[s].pc = "done"
        /\ h[s].session # NULL
        /\ gateway[h[s].session].payment_status = "paid"
        /\ payments[h[s].session].status = "paid"

\* ----------------------------------------------------------------------- C19
\* C19: a reserve that has loaded the course RESERVED by its own caller with
\* reserved_until not passed is answered with success, writes nothing to the
\* Course, and returns the stored reserved_until.
C19_ReserveAgainKeepsTimer ==
    [][\A s \in DOMAIN h :
          (/\ h[s].op = "reserve"
           /\ Leaves(s, "expire")
           /\ h[s].snap.status = "RESERVED"
           /\ h[s].snap.reserved_by_driver_id = h[s].driver
           /\ now <= h[s].snap.reserved_until) =>
                /\ h'[s].pc = "done"
                /\ h'[s].res = "already"
                /\ course' = course
                /\ h'[s].body.status = "RESERVED"
                /\ h'[s].body.reserved_until = course.reserved_until]_vars

\* the holder of the reservation has reserved again, some minutes into the
\* reservation, and was given the running reservation's reserved_until
C19_Witness ==
    \E s \in DOMAIN h :
        /\ h[s].op = "reserve" /\ h[s].pc = "done" /\ h[s].res = "already"
        /\ course.status = "RESERVED"
        /\ course.reserved_until # NULL
        /\ h[s].body.reserved_until = course.reserved_until
        /\ course.reserved_until < now + RESERVATION_DURATION_MINUTES

PayStep(s) == h[s].op = "pay" /\ h[s].pc # "done" /\ h'[s] # h[s]

\* C21: initiate_payment goes on to the gateway only when the course it
\* loads is RESERVED by the calling driver with reserved_until not passed;
\* when it succeeds it has inserted exactly one pending CommissionPayment,
\* for the calling driver and under the session id it returns; when it fails
\* (401/403/404, 409 not reserved, 403 reserved by another driver, 410
\* reservation expired, 500 gateway error) it has inserted none; and no step
\* of it changes the Course.
C21_InitiatePaymentFrame ==
    [][\A s \in DOMAIN h :
         /\ (Leaves(s, "find_course") /\ h[s].op = "pay" /\ h'[s].pc = "create")
               => /\ course.status = "RESERVED"
                  /\ course.reserved_by_driver_id = h[s].driver
                  /\ now <= course.reserved_until
         /\ PayStep(s) => course' = course
         /\ (PayStep(s) /\ h'[s].res = "checkout")
               => /\ h[s].pc = "create"
                  /\ payments' = Append(payments,
                                       CommissionPayment(h[s].driver,
                                                         course.commission_amount))
                  /\ h'[s].session = Len(payments')
                  /\ payments'[h'[s].session].status = "pending"
         /\ (PayStep(s) /\ h'[s].res # "checkout") => payments' = payments
         /\ (Free(s) /\ h'[s].op = "pay" /\ h'[s] # h[s])
               => payments' = payments /\ course' = course]_vars

\* a payment was initiated while the caller's reservation ran and the Course
\* is as it was, and a reservation has also run out
C21_Witness ==
    /\ \E s \in DOMAIN h :
          /\ h[s].op = "pay" /\ h[s].pc = "done" /\ h[s].res = "checkout"
          /\ h[s].session = Len(payments)
          /\ payments[h[s].session] = CommissionPayment(h[s].driver, course.commission_amount)
          /\ course.status = "RESERVED"
          /\ course.reserved_by_driver_id = h[s].driver
    /\ now > course.reserved_until

\* ----------------------------------------------------------------------- C22
\* C22: when driver_cancel returns after a late cancellation that has brought
\* the calling driver's late_cancellation_count to 3 or more, that driver's
\* is_active is false.
C22_LateCancelDeactivates ==
    [][\A s \in DOMAIN h :
         (Leaves(s, "inc") /\ h[s].op = "driver_cancel" /\ h'[s].pc = "done")
           => (drivers'[h[s].driver].late_cancellation_count >= 3
                 => ~drivers'[h[s].driver].is_active)]_vars

\* ----------------------------------------------------------------------- C23
\* a step of one of the three cancellation routes
CancelStep ==
    \/ admin_cancel_course
    \/ \E s \in DOMAIN h :
          /\ h'[s] # h[s]
          /\ \/ h[s].op \in {"driver_cancel", "client_cancel"} /\ h[s].pc # "done"
             \/ Free(s) /\ h'[s].op \in {"driver_cancel", "client_cancel"}

\* C23: no step of driver_cancel, of the client's cancellation or of
\* admin_cancel changes the course's commission_paid, commission_amount or
\* commission_paid_at, the set of CommissionPayment records, or the status
\* of any of them.
C23_CancelNeverRefunds ==
    [][CancelStep =>
         /\ course'.commission_paid = course.commission_paid
         /\ course'.commission_amount = course.commission_amount
         /\ course'.commission_paid_at = course.commission_paid_at
         /\ DOMAIN payments' = DOMAIN payments
         /\ \A k \in DOMAIN payments : payments'[k].status = payments[k].status]_vars

\* the assigned driver has cancelled a course whose commission was paid: the
\* course is cancelled, still marked paid, and the payment is still paid
C23_Witness ==
    /\ course.status \in {"CANCELLED", "CANCELLED_LATE_DRIVER"}
    /\ course.commission_paid
    /\ course.commission_paid_at # NULL
    /\ \E s \in DOMAIN h :
          /\ h[s].op = "driver_cancel" /\ h[s].pc = "done"
          /\ h[s].res \in {"cancelled", "cancelled_late"}
    /\ \E k \in DOMAIN payments :
          payments[k].status = "paid" /\ payments[k].driver_id = course.assigned_driver_id

\* ----------------------------------------------------------------------- C25
\* session k is paid at the gateway and the course is ASSIGNED to the driver
\* of k
AssignedFor(k, d) ==
    /\ k \in DOMAIN payments
    /\ payments[k].driver_id = d
    /\ gateway[k].payment_status = "paid"
    /\ course.status = "ASSIGNED"
    /\ course.assigned_driver_id = d

\* C25: when finalize_attribution has made the course ASSIGNED for a paid
\* session and the session's CommissionPayment is not paid yet (processing
\* stopped between the two updates), the polls and deliveries that follow
\* bring the CommissionPayment to paid with the course still ASSIGNED to the
\* same driver; and no step takes an ASSIGNED course from its driver.
C25_RecoversAfterPartialFailure ==
    /\ \A k \in 1..MaxPayments, d \in 1..NumDrivers :
          (AssignedFor(k, d) /\ payments[k].status # "paid")
            ~> (AssignedFor(k, d) /\ payments[k].status = "paid")
    /\ [][course.status = "ASSIGNED"
            => /\ course'.status = "ASSIGNED"
               /\ course'.assigned_driver_id = course.assigned_driver_id]_vars

\* a delivery has failed after the course update: the course is ASSIGNED,
\* the session's payment is still pending, and no request is in flight
C25_Witness ==
    \E k \in DOMAIN payments :
       /\ AssignedFor(k, payments[k].driver_id)
       /\ payments[k].status = "pending"
       /\ h[1].op = "webhook" /\ h[1].pc = "done" /\ h[1].res = webhook_on_exception

\* ----------------------------------------------------------------------- C26
\* C26: every step that makes the course DONE starts from an ASSIGNED
\* course, and a mark-done whose update finds the course not ASSIGNED leaves
\* it unchanged.
C26_DoneOnlyFromAssigned ==
    [][/\ (course'.status = "DONE" /\ course.status # "DONE")
            => course.status = "ASSIGNED"
       /\ \A s \in DOMAIN h :
            (Leaves(s, "update") /\ h[s].op = "mark_done" /\ course.status # "ASSIGNED")
              => course' = course]_vars

\* ----------------------------------------------------------------------- C27
\* the values the CommissionPayment model documents for status
PaymentStatus == {"pending", "paid", "failed", "refunded"}

\* C27: in every reachable state the status of every CommissionPayment
\* record is one of pending, paid, failed, refunded.
C27_PaymentStatusEnum ==
    \A k \in DOMAIN payments : payments[k].status \in PaymentStatus

\* ----------------------------------------------------------------------- C28
\* the accounts with the e-mail and the password of the posted data
Matching(data) ==
    {d \in DOMAIN drivers :
        /\ drivers[d].email = data.email
        /\ drivers[d].password_hash = simple_hash(data.password)}

\* C28: register_driver inserts the new driver with is_active false.  A
\* login returns a token only for an account that has the posted e-mail and
\* password and is active; while every account with these credentials is
\* inactive it returns none, and the account the lookup finds being one of
\* them it answers 403; an e-mail no driver has, or a password that is not
\* that of the account found, is answered 401.
C28_LoginRequiresActivation ==
    [][\A s \in DOMAIN h :
         /\ (Leaves(s, "insert") /\ h[s].op = "register")
               => /\ Len(drivers') = Len(drivers) + 1
                  /\ ~drivers'[Len(drivers')].is_active
                  /\ drivers'[Len(drivers')].email = h[s].data.email
         /\ \A data \in DriverLogin :
               (login_driver(s, data) /\ h'[s].data = data)
                 => LET d == find_one_email(data.email)
                    IN /\ h'[s].res \in {"token", "401", "403"}
                       /\ h'[s].res = "token"
                            => /\ h'[s].driver \in Matching(data)
                               /\ drivers[h'[s].driver].is_active
                       /\ h'[s].res # "token" => h'[s].driver = NULL
                       /\ (\A m \in Matching(data) : ~drivers[m].is_active)
                            => h'[s].res # "token"
                       /\ (d \in Matching(data) /\ ~drivers[d].is_active)
                            => h'[s].res = "403"
                       /\ (d = NULL \/ d \notin Matching(data))
                            => h'[s].res = "401"]_vars

\* a driver was refused with 403 before validation, and after it the same
\* credentials have returned the driver's token
C28_Witness ==
    /\ h[1].op = "login" /\ h[1].res = "403"
    /\ h[2].op = "login" /\ h[2].res = "token"
    /\ h[1].data = h[2].data
    /\ h[2].driver \in Matching(h[2].data)
    /\ drivers[h[2].driver].is_active

\* ----------------------------------------------------------------------- C29
\* C29: in every reachable state, also after registrations that ran at the
\* same time, no two Driver records have the same e-mail.
C29_EmailUnique ==
    \A d1, d2 \in DOMAIN drivers :
       drivers[d1].email = drivers[d2].email => d1 = d2

\* ----------------------------------------------------------------------- C30
\* C30: no expiry sweep (the check_and_expire_reservation of a claim page or
\* of a reserve, written from the document the handler had loaded) takes a
\* course that is ASSIGNED with commission_paid true back to OPEN.
C30_SweepSparesAssigned ==
    [][\A s \in DOMAIN h :
         (Leaves(s, "expire") /\ course.status = "ASSIGNED" /\ course.commission_paid)
           => course'.status = "ASSIGNED"]_vars

\* ----------------------------------------------------------------------- C24
\* the price of the course in cents
PriceCents == hundredths[course.price_total]

\* cents is price x rate (a tenth of the price in cents) rounded to a whole
\* number of cents; half a cent may go either way
RoundedTenth(cents, price) ==
    /\ cents \in {price \div 10, price \div 10 + 1}
    /\ price % 10 < 5 => cents = price \div 10
    /\ price % 10 > 5 => cents = price \div 10 + 1

\* C24: at every price in cents, the course's commission_amount is
\* price x rate rounded to 2 decimals (the float of that decimal), every
\* checkout session was created for exactly 100 x that amount in whole cents,
\* every CommissionPayment's amount is the same float, and a price of 69.00
\* gives 6.90 and 690 cents.
C24_CommissionCents ==
    /\ RoundedTenth(hundredths[course.commission_amount], PriceCents)
    /\ course.commission_amount = FromRatio[hundredths[course.commission_amount], 100]
    /\ \A k \in DOMAIN gateway :
          /\ gateway[k].unit_amount = hundredths[course.commission_amount]
          /\ payments[k].amount = course.commission_amount
    /\ PriceCents = 6900
          => /\ course.commission_amount = FromRatio[690, 100]
             /\ \A k \in DOMAIN gateway : gateway[k].unit_amount = 690

\* ----------------------------------------------------------------------- C31
\* C31: while a reservation has not run out, no step other than a payment's
\* finalization takes it from its driver: the course stays RESERVED by the
\* same driver, whatever the other requests in flight do (the admin's routes
\* are not among the steps here).
C31_FreshReservationKept ==
    [][(/\ course.status = "RESERVED"
        /\ now <= course.reserved_until
        /\ ~\E s \in DOMAIN h : Leaves(s, "finalize_update")) =>
            /\ course'.status = "RESERVED"
            /\ course'.reserved_by_driver_id = course.reserved_by_driver_id]_vars

\* ----------------------------------------------------------------------- C32
\* C32: a finalization of driver A's payment that loads the course RESERVED
\* by another driver B, B's reservation running and unpaid, goes on to its
\* update, which leaves the course ASSIGNED to A with the reservation fields
\* cleared; one that loads the course ASSIGNED to B returns false, and
\* neither that step nor the payment update that follows changes the course.
C32_LatePaymentBeatsReservation ==
    [][\A s \in DOMAIN h :
          /\ (/\ Leaves(s, "finalize_find")
              /\ course.status = "RESERVED"
              /\ course.reserved_by_driver_id \notin {NULL, h[s].driver}
              /\ now <= course.reserved_until
              /\ ~course.commission_paid) =>
                h'[s].pc = "finalize_update"
          /\ (/\ Leaves(s, "finalize_update")
              /\ h[s].snap.status = "RESERVED"
              /\ h[s].snap.reserved_by_driver_id # h[s].driver) =>
                /\ h'[s].fin = "true"
                /\ course'.status = "ASSIGNED"
                /\ course'.assigned_driver_id = h[s].driver
                /\ course'.reserved_by_driver_id = NULL
                /\ course'.reserved_until = NULL
          /\ (/\ Leaves(s, "finalize_find")
              /\ course.status = "ASSIGNED"
              /\ course.assigned_driver_id # h[s].driver) =>
                /\ h'[s].fin = "false"
                /\ course' = course
          /\ (Leaves(s, "payment_update") /\ h[s].fin = "false") =>
                course' = course]_vars

\* driver A's payment has been finalized over the running reservation of
\* another driver, after A's own reservation had run out
C32_Witness ==
    \E s \in DOMAIN h :
        /\ h[s].pc = "payment_update" /\ h[s].fin = "true"
        /\ h[s].snap.status = "RESERVED"
        /\ h[s].snap.reserved_by_driver_id \notin {NULL, h[s].driver}
        /\ h[s].snap.reserved_until >= now
        /\ course.status = "ASSIGNED"
        /\ course.assigned_driver_id = h[s].driver
        /\ course.reserved_by_driver_id = NULL

\* ----------------------------------------------------------------------- C33
\* C33: when check_payment_status or verify_payment returns after a
\* finalization with the answer "payment confirmed, the course is attributed
\* to you", the course is ASSIGNED to the driver of the payment.
C33_ConfirmedMeansAssigned ==
    [][\A s \in DOMAIN h :
          (/\ Leaves(s, "payment_update")
           /\ h[s].op \in {"status", "verify"}
           /\ h'[s].res = "paid") =>
                /\ course'.status = "ASSIGNED"
                /\ course'.assigned_driver_id = payments[h[s].session].driver_id]_vars

\* ----------------------------------------------------------------------- C34
\* C34: every step that changes the status to CANCELLED or to a
\* late-cancelled variant starts from OPEN, RESERVED or ASSIGNED.
C34_CancelOnlyFromLive ==
    [][(/\ course'.status \in Terminal \ {"DONE"}
        /\ course'.status # course.status) =>
            course.status \in {"OPEN", "RESERVED", "ASSIGNED"}]_vars

\* ----------------------------------------------------------------------- C35
\* C35: in every state, a RESERVED course has reserved_by_driver_id and
\* reserved_until set, an OPEN course has both null, and an ASSIGNED course
\* has assigned_driver_id set and commission_paid true.
C35_StatusFieldsAgree ==
    /\ course.status = "RESERVED" =>
          course.reserved_by_driver_id # NULL /\ course.reserved_until # NULL
    /\ course.status = "OPEN" =>
          course.reserved_by_driver_id = NULL /\ course.reserved_until = NULL
    /\ course.status = "ASSIGNED" =>
          course.assigned_driver_id # NULL /\ course.commission_paid

\* the course is OPEN again, its reservation fields null, after a
\* reservation for which a checkout session was opened
C35_Witness ==
    /\ course.status = "OPEN"
    /\ course.reserved_by_driver_id = NULL
    /\ course.reserved_until = NULL
    /\ Len(payments) > 0

\* ----------------------------------------------------------------------- C36
\* C36: in every state the course's assigned_driver_id, when set, is the id
\* of a stored Driver.
C36_AssignedDriverExists ==
    course.assigned_driver_id # NULL => course.assigned_driver_id \in DOMAIN drivers

\* ----------------------------------------------------------------------- C37
\* C37: the one course is cancelled late by its driver at most once, so no
\* driver's late_cancellation_count, 0 at the start, ever exceeds 1.
C37_LateCountOncePerCourse ==
    \A d \in DOMAIN drivers : drivers[d].late_cancellation_count <= 1

\* ----------------------------------------------------------------------- C38
\* what a poll's first step tells: it goes on to finalize, or it answers
\* with success, or it answers with a failure
Outcome(answer) ==
    IF answer.pc = "finalize_find" THEN "finalize"
    ELSE IF answer.res = "paid" THEN "success"
    ELSE "failure"

\* C38: from the same store, for the same session and the same answer of
\* the gateway, get_payment_status gives the outcome verify_payment gives,
\* and writes nothing, as verify_payment writes nothing; likewise when the
\* gateway cannot be reached.
C38_PollRoutesAgree ==
    [][\A s \in DOMAIN h, k \in DOMAIN gateway :
          /\ get_payment_status(s, k) =>
                Outcome(h'[s]) = Outcome(verify_payment_read(k))
          /\ verify_payment(s, k) =>
                Outcome(h'[s]) = Outcome(get_payment_status_read(k))
          /\ \A op \in {"status", "verify"} :
                retrieve_error(s, k, op) =>
                   /\ Outcome(h'[s]) = "failure"
                   /\ Outcome(retrieve_error_answer("status", k))
                        = Outcome(retrieve_error_answer("verify", k))]_vars

\* ----------------------------------------------------------------------- C39
\* the answer claim-token string t gets: 404 when it is not stored, 410 when
\* it is stored and now is past its expires_at
Refused(t) ==
    IF t \notin DOMAIN tokens THEN "404"
    ELSE IF now > tokens[t].expires_at THEN "410"
    ELSE "none"

\* C39: get_claim_info, and reserve called by a validated driver, answer 404
\* for a token string that is not stored and 410 for a stored token past
\* its expires_at, in their first step: nothing of the course has been read
\* into the handler and no record has changed.
C39_BadTokenRefusedFirst ==
    [][\A s \in DOMAIN h, t \in TokenStrings :
          /\ (get_claim_info(s, t) /\ Refused(t) # "none") =>
                /\ h'[s] = Answer("claim_info", Refused(t))
                /\ UNCHANGED Store
          /\ \A d \in DOMAIN drivers :
                (reserve_course(s, d, t) /\ drivers[d].is_active /\ Refused(t) # "none") =>
                   /\ h'[s] = Answer("reserve", Refused(t))
                   /\ UNCHANGED Store]_vars

\* a reserve has been refused with 410 while the course's current link is
\* valid
C39_Witness ==
    \E s \in DOMAIN h :
        /\ h[s].op = "reserve" /\ h[s].pc = "done" /\ h[s].res = "410"
        /\ \E t \in CourseTokens : now <= tokens[t].expires_at

\* ----------------------------------------------------------------------- C40
\* C40: admin_activate_driver called for a stored driver is answered with
\* success, whether the driver is inactive or already active.
C40_ActivateIdempotent ==
    \A d \in DOMAIN drivers : admin_activate_driver_answer(d) = "200"
====
